---- MODULE Spec2Model ----
\* Model of the bounding-box conversion and drawing loop of
\* annotate_bboxes_from_url.py (draw_bboxes and its helpers).
\*
\* Numbers.  The program works on Python floats.  A number v is held here as
\* the integer 1000*v (thousandths), so 0.356 is 356 and 1200 is 1200000, and
\* every product and quotient the code forms is kept as an exact fraction
\* num/den until the code rounds it (round) or truncates it (int).
EXTENDS Integers, Sequences, FiniteSets, TLC

VARIABLES
    img_size,      \* img.size: <<img_w, img_h>>, the canvas
    bbox_format,   \* the bbox_format argument of draw_bboxes
    source_size,   \* the source_size argument: <<src_w, src_h>> or None
    items,         \* the items argument: the caller's list of detections
    idx,           \* how many elements of items the for loop has consumed
    drawn,         \* the rectangles drawn so far, in drawing order
    pc,            \* "loop", "done" (returned img) or "raised" (exception left
                   \* draw_bboxes); "main" and "exit" before and after it in main()
    font_size,     \* font.size of the font draw_bboxes loaded
    from_labels,   \* main(): args.labels was given, items come from the label file
    exit_status,   \* main(): None while running, <<code>> once the process has ended
    exporter,      \* the label writer called: "save_yolo_labels" or "save_yolo_labels_auto"
    format_type,   \* the format_type argument of save_yolo_labels_auto
    lines,         \* the writer's list of lines so far
    eidx,          \* how many elements of the list the writer's loop has consumed
    label_file,    \* None before the write, <<text>> once output_path is written
    epc,           \* "idle", "loop", "written" or "raised" (exception left the writer)
    label_lines,   \* _read_yolo_label_file: the lines of the label file
    ridx,          \* how many of them the reader's loop has consumed
    rpc,           \* "idle", "loop", "returned" or "raised" (exception left the reader)
    data,          \* main(): the mapping json.loads(args.data) returned
    url_lines,     \* batch: the lines of the URLs file
    urls,          \* batch: what read_urls_from_file returned
    bidx,          \* batch: how many URLs the for loop has taken
    bpc,           \* batch: where main() and process_single_image stand
    success_count, \* batch: success_count
    failed_count,  \* batch: failed_count
    log,           \* batch: the steps carried out so far, in order
    cv_in,         \* conversion chain: the box it starts from
    cv_kind,       \* conversion chain: which conversions are chained
    cv_mid,        \* conversion chain: the converted box, None before
    cv_out,        \* conversion chain: the pixel corners, None before
    cpc            \* conversion chain: "idle", "start", "converted" or "done"

mainVars == <<from_labels, exit_status>>
exportVars == <<exporter, format_type, lines, eidx, label_file, epc>>
readVars == <<label_lines, ridx, rpc>>
batchVars == <<url_lines, urls, bidx, bpc, success_count, failed_count, log>>
convVars == <<cv_in, cv_kind, cv_mid, cv_out, cpc>>
auxVars == <<readVars, data, batchVars, convVars>>
vars == <<img_size, bbox_format, source_size, items, idx, drawn, pc, font_size,
          mainVars, exportVars, auxVars>>

-----------------------------------------------------------------------------
\* Bounds and input domains

\* longest detection list of the drawing-loop specification
MaxItems == 2

\* the upper end of the Qwen coordinate grid (1000.0 in the source)
QwenRange == 1000

\* source_size is None
None == <<>>

\* v as thousandths
Milli(v) == v * 1000

-----------------------------------------------------------------------------
\* Python floats as exact fractions [n |-> numerator, d |-> denominator],
\* d > 0, in lowest terms

Abs(k) == IF k < 0 THEN -k ELSE k

RECURSIVE GCD(_, _)
GCD(a, b) == IF b = 0 THEN a ELSE GCD(b, a % b)

Frac(num, den) ==
    LET g == GCD(Abs(num), den) IN [n |-> num \div g, d |-> den \div g]

\* float(k) of an integer k
Flt(k) == [n |-> k, d |-> 1]

\* float(v) of a list element held in thousandths
ToFloat(m) == Frac(m, Milli(1))

\* a * b
Mul(a, b) ==
    LET g1 == GCD(Abs(a.n), b.d)
        g2 == GCD(Abs(b.n), a.d)
    IN  [n |-> (a.n \div g1) * (b.n \div g2), d |-> (a.d \div g2) * (b.d \div g1)]

\* a / b, b > 0
Div(a, b) == Mul(a, [n |-> b.d, d |-> b.n])

\* a + b
Add(a, b) ==
    LET g == GCD(a.d, b.d)
    IN  Frac(a.n * (b.d \div g) + b.n * (a.d \div g), (a.d \div g) * b.d)

\* a - b
Sub(a, b) == Add(a, [n |-> -b.n, d |-> b.d])

\* lo <= a <= hi for integers lo, hi
Between(lo, a, hi) == lo * a.d <= a.n /\ a.n <= hi * a.d

\* a > k for an integer k
Above(a, k) == a.n > k * a.d

\* int(a): truncation toward zero
PyInt(a) ==
    IF a.n >= 0 THEN a.n \div a.d ELSE -((-a.n) \div a.d)

\* int(round(a)): round to nearest, halves to the even neighbour
PyRound(a) ==
    LET f == a.n \div a.d
        r == a.n % a.d
    IN  IF 2 * r < a.d THEN f
        ELSE IF 2 * r > a.d THEN f + 1
        ELSE IF f % 2 = 0 THEN f ELSE f + 1

\* max(0, min(limit - 1, v))
PyClamp(v, limit) ==
    LET m == IF limit - 1 < v THEN limit - 1 ELSE v
    IN  IF m < 0 THEN 0 ELSE m

-----------------------------------------------------------------------------
\* Detections.  A box value is what item.get(key) returns: absent (None), or
\* a list whose elements either all pass float() or not.

Box(seq) == [present |-> TRUE, elems |-> seq, numeric |-> TRUE]
NonNumericBox(seq) == [present |-> TRUE, elems |-> seq, numeric |-> FALSE]
Absent == [present |-> FALSE, elems |-> <<>>, numeric |-> TRUE]

Detection(b2d, bb, yo, desc) ==
    [bbox_2d |-> b2d, bbox |-> bb, yolo |-> yo, description |-> desc]

\* {"bbox_2d": seq, "description": "crack"}
Crack(seq) == Detection(Box(seq), Absent, Absent, "crack")

\* the boxes the specification and the source comments use as examples
ExampleBoxes ==
    { <<520, 410, 80, 50>>,                         \* [0.52,0.41,0.08,0.05]
      <<250000, 250000, 500000, 500000>>,           \* [250,250,500,500]
      <<1200000, 300000, 1400000, 500000>>,         \* [1200,300,1400,500]
      <<0, 356, 568, 76, 26>>,                      \* [0,0.356,0.568,0.076,0.026]
      <<320000, 350000, 400000, 380000>>,           \* [320,350,400,380]
      <<100000, 120000, 180000, 160000>>,           \* [100,120,180,160]
      <<1500, 3500, 7500, 500>>,                    \* [1.5,3.5,7.5,0.5]: halves
      <<10600, -20700, 30500, 40900>>,              \* [10.6,-20.7,30.5,40.9]
      <<2000, 1200000, 300000, 100000, 50000>>,     \* [2,1200,300,100,50]
      <<500000, 500000, 250000, 250000>>,           \* inverted corners
      <<500000, 400000, -100000, -50000>> }         \* [500,400,-100,-50]: negative extent

\* the example boxes the drawing loop is run on
LoopBoxes ==
    { <<520, 410, 80, 50>>,
      <<1200000, 300000, 1400000, 500000>>,
      <<10600, -20700, 30500, 40900>>,
      <<0, 356, 568, 76, 26>>,
      <<320000, 350000, 400000, 380000>>,
      <<2000, 1200000, 300000, 100000, 50000>> }

\* a grid of boxes: every combination of four values per coordinate, chosen
\* below 0, inside [0,1], inside (1,1000] and above 1000
GridX1 == {-500, 500, 250000, 1200000}
GridY1 == {0, 1000, 10600, 1000000}
GridX2 == {80, 2500, 500000, 1400000}
GridY2 == {50, 1001, 999500, 1000001}
GridBoxes4 ==
    { <<a, b, c, d>> : a \in GridX1, b \in GridY1, c \in GridX2, d \in GridY2 }
\* the same boxes behind a class_id of 2000, a value outside every range test
GridBoxes5 == { <<Milli(2000)>> \o q : q \in GridBoxes4 }

\* detections that draw_bboxes must pass over
MalformedDetections ==
    { Crack(<<5000, 5000>>),                                   \* {"bbox_2d":[5,5]}
      Crack(<<1000, 2000, 3000, 4000, 5000, 6000>>),           \* six numbers
      Crack(<<>>),                                             \* {"bbox_2d":[]}
      Detection(Absent, Absent, Absent, "crack"),              \* no box key
      Detection(NonNumericBox(<<10000, 20000, 30000, 40000>>), Absent, Absent, "crack") }

\* detections that carry their box under another key, or under several
OtherKeyDetections ==
    { Detection(Absent, Box(<<100000, 120000, 180000, 160000>>), Absent, ""),
      Detection(Absent, Absent, Box(<<0, 356, 568, 76, 26>>), "label"),
      Detection(Box(<<>>), Box(<<520, 410, 80, 50>>), Box(<<5000, 5000>>), "crack") }

\* the detections of the single-box specification
WideDetections ==
    { Crack(q) : q \in ExampleBoxes \cup GridBoxes4 \cup GridBoxes5 }
        \cup MalformedDetections \cup OtherKeyDetections

\* the detections of the drawing-loop specification
LoopDetections ==
    { Crack(q) : q \in LoopBoxes } \cup MalformedDetections \cup OtherKeyDetections

\* what parse_items returns: the elements that carry a box key
ParsedDetections ==
    { d \in LoopDetections : d.bbox_2d.present \/ d.bbox.present \/ d.yolo.present }

\* what _read_yolo_label_file returns: {"bbox_2d": [cls, xc, yc, w, h],
\* "description": "label"} for each line of five numbers
LabelFileDetections ==
    { Detection(Box(q), Absent, Absent, "label") :
        q \in { <<0, 356, 568, 76, 26>>,
                <<1000, 500, 500, 200, 200>>,
                <<2000, 1200000, 300000, 100000, 50000>> } }

\* the detections the label writers are run on
ExportDetections ==
    { Crack(<<0, 356, 568, 76, 26>>),                          \* [0,0.356,0.568,0.076,0.026]
      Crack(<<320000, 350000, 400000, 380000>>),               \* [320,350,400,380]
      Crack(<<520, 410, 80, 50>>),                             \* [0.52,0.41,0.08,0.05]
      Crack(<<2700, 500, 500, 200, 200>>),                     \* [2.7,0.5,0.5,0.2,0.2]
      Crack(<<1000, 320000, 350000, 400000, 380000>>),         \* [1,320,350,400,380]
      Crack(<<1000, 2000, 3000, 4000, 5000, 6000>>),           \* six numbers
      Crack(<<5000, 5000>>),                                   \* {"bbox_2d":[5,5]}
      Crack(<<>>),                                             \* {"bbox_2d":[]}
      Detection(Absent, Box(<<100000, 120000, 180000, 160000>>), Absent, ""),
      Detection(NonNumericBox(<<10000, 20000, 30000, 40000>>), Absent, Absent, "crack"),
      Detection(NonNumericBox(<<0, 356, 568, 76, 26>>), Absent, Absent, "crack") }

\* format_type as get_prompt_for_model returns it
FormatTypes == {"Qwen-1000", "YOLO"}

\* the --bbox-format choices
Formats ==
    {"auto", "corners", "yolo_norm", "yolo_abs", "yolo_norm5", "yolo_abs5",
     "qwen1000", "qwen1000_5"}

Canvases == { <<1000, 800>>, <<1920, 1080>> }

SourceSizes == { None, <<0, 640>>, <<640, 0>>, <<2000, 400>>, <<1000, 800>> }

LoopCanvases == { <<1000, 800>> }

LoopSourceSizes == { None, <<0, 640>>, <<2000, 400>> }

\* font.size: 16 for DejaVuSans.ttf, 10 for the font of ImageFont.load_default()
TrueTypeSize == 16
DefaultFontSize == 10
FontSizes == { TrueTypeSize, DefaultFontSize }

\* every list over S of length at most n
RECURSIVE SeqsUpTo(_, _)
SeqsUpTo(S, n) ==
    IF n = 0 THEN { <<>> }
    ELSE LET shorter == SeqsUpTo(S, n - 1)
         IN  shorter \cup { Append(s, x) : s \in { t \in shorter : Len(t) = n - 1 }, x \in S }

-----------------------------------------------------------------------------
\* The helpers of annotate_bboxes_from_url.py

\* _is_normalized with the upper end left out: 0.0 <= v < 1.0
_is_normalized_open(vals) ==
    \A i \in DOMAIN vals : Between(0, vals[i], 1) /\ vals[i].n # vals[i].d

\* all(0.0 <= v <= 1.0 for v in vals)
_is_normalized(vals) ==
    \A i \in DOMAIN vals : Between(0, vals[i], 1)

\* all(0.0 <= v <= 1000.0 for v in vals) and any(v > 1.0 for v in vals)
InQwenRange(vals) ==
    /\ \A i \in DOMAIN vals : Between(0, vals[i], QwenRange)
    /\ \E i \in DOMAIN vals : Above(vals[i], 1)

\* _yolo_to_corners with the whole extent, not half of it, on each side
_yolo_to_corners_whole(xc, yc, w, h, im_w, im_h, normalized) ==
    LET XC == IF normalized THEN Mul(xc, Flt(im_w)) ELSE xc
        YC == IF normalized THEN Mul(yc, Flt(im_h)) ELSE yc
        BW == IF normalized THEN Mul(w, Flt(im_w)) ELSE w
        BH == IF normalized THEN Mul(h, Flt(im_h)) ELSE h
    IN  << PyClamp(PyRound(Sub(XC, BW)), im_w), PyClamp(PyRound(Sub(YC, BH)), im_h),
           PyClamp(PyRound(Add(XC, BW)), im_w), PyClamp(PyRound(Add(YC, BH)), im_h) >>

\* _yolo_to_corners with the half extent added on the left and top and taken
\* off on the right and bottom
_yolo_to_corners_swapped(xc, yc, w, h, im_w, im_h, normalized) ==
    LET XC == IF normalized THEN Mul(xc, Flt(im_w)) ELSE xc
        YC == IF normalized THEN Mul(yc, Flt(im_h)) ELSE yc
        BW == IF normalized THEN Mul(w, Flt(im_w)) ELSE w
        BH == IF normalized THEN Mul(h, Flt(im_h)) ELSE h
    IN  << PyClamp(PyRound(Add(XC, Div(BW, Flt(2)))), im_w),
           PyClamp(PyRound(Add(YC, Div(BH, Flt(2)))), im_h),
           PyClamp(PyRound(Sub(XC, Div(BW, Flt(2)))), im_w),
           PyClamp(PyRound(Sub(YC, Div(BH, Flt(2)))), im_h) >>

_yolo_to_corners(xc, yc, w, h, im_w, im_h, normalized) ==
    LET XC == IF normalized THEN Mul(xc, Flt(im_w)) ELSE xc
        YC == IF normalized THEN Mul(yc, Flt(im_h)) ELSE yc
        BW == IF normalized THEN Mul(w, Flt(im_w)) ELSE w
        BH == IF normalized THEN Mul(h, Flt(im_h)) ELSE h
        x1 == PyRound(Sub(XC, Div(BW, Flt(2))))
        y1 == PyRound(Sub(YC, Div(BH, Flt(2))))
        x2 == PyRound(Add(XC, Div(BW, Flt(2))))
        y2 == PyRound(Add(YC, Div(BH, Flt(2))))
    IN  << PyClamp(x1, im_w), PyClamp(y1, im_h),
           PyClamp(x2, im_w), PyClamp(y2, im_h) >>

\* _qwen1000_to_corners with the width scale used for y as well
_qwen1000_to_corners_sx(x1, y1, x2, y2, im_w, im_h) ==
    LET sx == Div(Flt(im_w), Flt(QwenRange))
    IN  << PyClamp(PyRound(Mul(x1, sx)), im_w), PyClamp(PyRound(Mul(y1, sx)), im_h),
           PyClamp(PyRound(Mul(x2, sx)), im_w), PyClamp(PyRound(Mul(y2, sx)), im_h) >>

\* _qwen1000_to_corners that puts the smaller coordinate first
_qwen1000_to_corners_sorted(x1, y1, x2, y2, im_w, im_h) ==
    LET sx == Div(Flt(im_w), Flt(QwenRange))
        sy == Div(Flt(im_h), Flt(QwenRange))
        X1 == PyClamp(PyRound(Mul(x1, sx)), im_w)
        Y1 == PyClamp(PyRound(Mul(y1, sy)), im_h)
        X2 == PyClamp(PyRound(Mul(x2, sx)), im_w)
        Y2 == PyClamp(PyRound(Mul(y2, sy)), im_h)
    IN  << IF X1 < X2 THEN X1 ELSE X2, IF Y1 < Y2 THEN Y1 ELSE Y2,
           IF X1 < X2 THEN X2 ELSE X1, IF Y1 < Y2 THEN Y2 ELSE Y1 >>

_qwen1000_to_corners(x1, y1, x2, y2, im_w, im_h) ==
    LET sx == Div(Flt(im_w), Flt(QwenRange))
        sy == Div(Flt(im_h), Flt(QwenRange))
        X1 == PyRound(Mul(x1, sx))
        Y1 == PyRound(Mul(y1, sy))
        X2 == PyRound(Mul(x2, sx))
        Y2 == PyRound(Mul(y2, sy))
    IN  << PyClamp(X1, im_w), PyClamp(Y1, im_h),
           PyClamp(X2, im_w), PyClamp(Y2, im_h) >>

-----------------------------------------------------------------------------
\* The loop body of draw_bboxes

img_w == img_size[1]
img_h == img_size[2]

\* the item the for loop is about to take
item == items[idx + 1]

\* item.get("bbox_2d") or item.get("bbox") or item.get("yolo"):
\* the first value that is neither None nor an empty list, else the last one
Truthy(b) == b.present /\ Len(b.elems) > 0
GetBBox(it) ==
    IF Truthy(it.bbox_2d) THEN it.bbox_2d
    ELSE IF Truthy(it.bbox) THEN it.bbox
    ELSE it.yolo

bbox == GetBBox(item)

\* nums = [float(v) for v in bbox]
nums == [i \in DOMAIN bbox.elems |-> ToFloat(bbox.elems[i])]

\* fmt = (bbox_format or "auto").lower(); the --bbox-format choices are
\* lower-case already
fmt == bbox_format

YoloFormats == {"yolo_norm", "yolo_abs", "yolo_norm5", "yolo_abs5"}
QwenFormats == {"qwen1000", "qwen1000_5"}

\* the item reached the format dispatch: it has a box and every element is a number
Parsed == Truthy(bbox) /\ bbox.numeric

\* the rescale under fmt == "corners": a source size, a 4-number box and
\* src_w > 0 and src_h > 0; otherwise nums stays as it is
RescaleCorners(n) ==
    IF /\ source_size # None
       /\ Len(n) = 4
       /\ source_size[1] > 0
       /\ source_size[2] > 0
    THEN LET sx == Div(Flt(img_w), Flt(source_size[1]))
             sy == Div(Flt(img_h), Flt(source_size[2]))
         IN  << Mul(n[1], sx), Mul(n[2], sy), Mul(n[3], sx), Mul(n[4], sy) >>
    ELSE n

\* x1, y1, x2, y2 = map(int, nums)
MapInt(n) == << PyInt(n[1]), PyInt(n[2]), PyInt(n[3]), PyInt(n[4]) >>

\* Last4 that drops the first element only under a hint ending in 5
Last4ByHint(n) ==
    IF Len(n) = 5 /\ fmt \in {"yolo_norm5", "yolo_abs5", "qwen1000_5"}
    THEN SubSeq(n, 2, 5)
    ELSE SubSeq(n, 1, 4)

\* a 5-number list drops its first element, a 4-number list is used whole
Last4(n) == IF Len(n) = 5 THEN SubSeq(n, 2, 5) ELSE n

\* YoloPixels that rescales a normalized box by the source size as well
YoloPixelsAnyBox(n, normalized) ==
    LET q == Last4(n)
    IN  IF source_size # None /\ source_size[1] > 0 /\ source_size[2] > 0
        THEN LET sx == Div(Flt(img_w), Flt(source_size[1]))
                 sy == Div(Flt(img_h), Flt(source_size[2]))
             IN  _yolo_to_corners(Mul(q[1], sx), Mul(q[2], sy), Mul(q[3], sx), Mul(q[4], sy),
                                  img_w, img_h, normalized)
        ELSE _yolo_to_corners(q[1], q[2], q[3], q[4], img_w, img_h, normalized)

\* the yolo branch under a hint: an absolute box is rescaled whenever a source
\* size is given (the division is unguarded)
YoloPixels(n, normalized) ==
    LET q == Last4(n)
    IN  IF ~normalized /\ source_size # None
        THEN LET sx == Div(Flt(img_w), Flt(source_size[1]))
                 sy == Div(Flt(img_h), Flt(source_size[2]))
             IN  _yolo_to_corners(Mul(q[1], sx), Mul(q[2], sy), Mul(q[3], sx), Mul(q[4], sy),
                                  img_w, img_h, normalized)
        ELSE _yolo_to_corners(q[1], q[2], q[3], q[4], img_w, img_h, normalized)

QwenPixels(n) ==
    LET q == Last4(n)
    IN  _qwen1000_to_corners(q[1], q[2], q[3], q[4], img_w, img_h)

\* Auto5Encoding with the range tests run on all five numbers
Auto5EncodingWhole(n) ==
    IF _is_normalized(n) THEN "YoloNormalized"
    ELSE IF InQwenRange(n) THEN "Qwen1000"
    ELSE "YoloAbsolute"

\* the auto branch for a 5-number list: the encoding chosen for nums[1:5]
Auto5Encoding(n) ==
    LET last4 == SubSeq(n, 2, 5)
    IN  IF _is_normalized(last4) THEN "YoloNormalized"
        ELSE IF InQwenRange(last4) THEN "Qwen1000"
        ELSE "YoloAbsolute"

\* the auto branch for a 4-number list
Auto4Encoding(n) ==
    IF _is_normalized(n) THEN "YoloNormalized"
    ELSE IF InQwenRange(n) THEN "Qwen1000"
    ELSE "Corners"

\* the pixel corners the auto branch computes for the encoding it chose
AutoPixels(n, enc) ==
    LET q == Last4(n)
    IN  CASE enc = "YoloNormalized" ->
                _yolo_to_corners(q[1], q[2], q[3], q[4], img_w, img_h, TRUE)
          [] enc = "Qwen1000" ->
                _qwen1000_to_corners(q[1], q[2], q[3], q[4], img_w, img_h)
          [] enc = "YoloAbsolute" ->
                _yolo_to_corners(q[1], q[2], q[3], q[4], img_w, img_h, FALSE)
          [] enc = "Corners" -> MapInt(q)

\* desc = item.get("description") or "bbox"
Desc(it) == IF it.description = "" THEN "bbox" ELSE it.description

\* label_cls = int(float(bbox[0])) for a 5-element list, else None (no class)
LabelCls(b) ==
    IF Len(b.elems) = 5 THEN << PyInt(ToFloat(b.elems[1])) >> ELSE << >>

\* the idx that enumerate(items, start=1) hands out, numbered instead by the
\* rectangles drawn so far
LabelIndexDrawn == Len(drawn) + 1

\* the idx that enumerate(items, start=1) hands out with the item
LabelIndex == idx + 1

\* label = f"{idx}: {'cls=' + str(label_cls) + ' ' if label_cls is not None else ''}{desc}"
Label == [idx |-> LabelIndex, cls |-> LabelCls(bbox), desc |-> Desc(item)]

\* th = font.size + 6
LabelHeight == font_size + 6

\* LabelTop without the max: y1 - th - 2
LabelTopUnclamped(y1) == y1 - LabelHeight - 2

\* ly = max(0, y1 - th - 2)
LabelTop(y1) ==
    IF y1 - LabelHeight - 2 > 0 THEN y1 - LabelHeight - 2 ELSE 0

\* the rectangle drawn for the item, with the conversion branch that produced
\* it, its label and the left and top edge of the label background
Rect(px, enc) ==
    [idx |-> idx + 1, box |-> bbox.elems, px |-> px, enc |-> enc,
     label |-> Label, lx |-> px[1], ly |-> LabelTop(px[2]), th |-> LabelHeight]

\* continue: the item is passed over
Skip ==
    /\ idx' = idx + 1
    /\ UNCHANGED <<img_size, bbox_format, source_size, items, drawn, pc, font_size, mainVars, exportVars, auxVars>>

\* Draw that writes the pixel corners back into the item
DrawInPlace(px, enc) ==
    /\ drawn' = Append(drawn, Rect(px, enc))
    /\ idx' = idx + 1
    /\ items' = [items EXCEPT ![idx + 1].bbox_2d =
                    Box(<< Milli(px[1]), Milli(px[2]), Milli(px[3]), Milli(px[4]) >>)]
    /\ UNCHANGED <<img_size, bbox_format, source_size, pc, font_size, mainVars, exportVars, auxVars>>

\* the item is drawn
Draw(px, enc) ==
    /\ drawn' = Append(drawn, Rect(px, enc))
    /\ idx' = idx + 1
    /\ UNCHANGED <<img_size, bbox_format, source_size, items, pc, font_size, mainVars, exportVars, auxVars>>

InLoop == pc = "loop" /\ idx < Len(items)

\* if not bbox: continue
SkipNoBBox == InLoop /\ ~Truthy(bbox) /\ Skip

\* float(v) raised: continue
SkipNotNumeric == InLoop /\ Truthy(bbox) /\ ~bbox.numeric /\ Skip

\* fmt == "corners"
DrawCorners ==
    /\ InLoop /\ Parsed /\ fmt = "corners"
    /\ Len(nums) = 4
    /\ Draw(MapInt(RescaleCorners(nums)), "Corners")

SkipCornersLength ==
    InLoop /\ Parsed /\ fmt = "corners" /\ Len(nums) # 4 /\ Skip

\* sx = img_w / float(src_w) or sy = img_h / float(src_h) divides by zero
YoloDividesByZero ==
    /\ fmt \in {"yolo_abs", "yolo_abs5"}
    /\ source_size # None
    /\ (source_size[1] = 0 \/ source_size[2] = 0)

\* fmt in ("yolo_norm", "yolo_abs", "yolo_norm5", "yolo_abs5")
DrawYolo ==
    /\ InLoop /\ Parsed /\ fmt \in YoloFormats
    /\ Len(nums) \in {4, 5}
    /\ ~YoloDividesByZero
    /\ LET normalized == fmt \in {"yolo_norm", "yolo_norm5"}
       IN  Draw(YoloPixels(nums, normalized),
                IF normalized THEN "YoloNormalized" ELSE "YoloAbsolute")

\* ZeroDivisionError leaves draw_bboxes: nothing catches it
RaiseZeroDivision ==
    /\ InLoop /\ Parsed /\ fmt \in YoloFormats
    /\ Len(nums) \in {4, 5}
    /\ YoloDividesByZero
    /\ pc' = "raised"
    /\ UNCHANGED <<img_size, bbox_format, source_size, items, idx, drawn, font_size, mainVars, exportVars, auxVars>>

SkipYoloLength ==
    InLoop /\ Parsed /\ fmt \in YoloFormats /\ Len(nums) \notin {4, 5} /\ Skip

\* DrawQwen that looks at the values first: a box inside [0,1] goes the
\* normalized way although the hint says qwen
DrawQwenByRange ==
    /\ InLoop /\ Parsed /\ fmt \in QwenFormats
    /\ Len(nums) \in {4, 5}
    /\ IF _is_normalized(Last4(nums))
       THEN Draw(AutoPixels(nums, "YoloNormalized"), "YoloNormalized")
       ELSE Draw(QwenPixels(nums), "Qwen1000")

\* fmt in ("qwen1000", "qwen1000_5")
DrawQwen ==
    /\ InLoop /\ Parsed /\ fmt \in QwenFormats
    /\ Len(nums) \in {4, 5}
    /\ Draw(QwenPixels(nums), "Qwen1000")

SkipQwenLength ==
    InLoop /\ Parsed /\ fmt \in QwenFormats /\ Len(nums) \notin {4, 5} /\ Skip

IsAuto == fmt \notin ({"corners"} \cup YoloFormats \cup QwenFormats)

\* else (auto), len(nums) == 5
DrawAuto5 ==
    /\ InLoop /\ Parsed /\ IsAuto
    /\ Len(nums) = 5
    /\ LET enc == Auto5Encoding(nums) IN Draw(AutoPixels(nums, enc), enc)

\* else (auto), len(nums) == 4
DrawAuto4 ==
    /\ InLoop /\ Parsed /\ IsAuto
    /\ Len(nums) = 4
    /\ LET enc == Auto4Encoding(nums) IN Draw(AutoPixels(nums, enc), enc)

SkipAutoLength ==
    InLoop /\ Parsed /\ IsAuto /\ Len(nums) \notin {4, 5} /\ Skip

\* the loop is exhausted: return img
Return ==
    /\ pc = "loop" /\ idx = Len(items)
    /\ pc' = "done"
    /\ UNCHANGED <<img_size, bbox_format, source_size, items, idx, drawn, font_size, mainVars, exportVars, auxVars>>

Next ==
    \/ SkipNoBBox
    \/ SkipNotNumeric
    \/ DrawCorners
    \/ SkipCornersLength
    \/ DrawYolo
    \/ RaiseZeroDivision
    \/ SkipYoloLength
    \/ DrawQwen
    \/ SkipQwenLength
    \/ DrawAuto5
    \/ DrawAuto4
    \/ SkipAutoLength
    \/ Return

\* draw_bboxes is called on its own, not from main()
NoMain == from_labels = FALSE /\ exit_status = None

\* no label writer is running
NoExport ==
    /\ exporter = "save_yolo_labels"
    /\ format_type = "YOLO"
    /\ lines = <<>>
    /\ eidx = 0
    /\ label_file = None
    /\ epc = "idle"

\* no label file is being read
NoRead == label_lines = <<>> /\ ridx = 0 /\ rpc = "idle"

\* no batch is running
NoBatch ==
    /\ url_lines = <<>>
    /\ urls = <<>>
    /\ bidx = 0
    /\ bpc = "idle"
    /\ success_count = 0
    /\ failed_count = 0
    /\ log = <<>>

\* no conversion chain is running
NoConversion ==
    /\ cv_in = <<>>
    /\ cv_kind = "none"
    /\ cv_mid = None
    /\ cv_out = None
    /\ cpc = "idle"

\* a call of draw_bboxes with any of the given arguments
CallWith(Sizes, Sources, Items, Fonts) ==
    /\ img_size \in Sizes
    /\ font_size \in Fonts
    /\ bbox_format \in Formats
    /\ source_size \in Sources
    /\ items \in Items
    /\ idx = 0
    /\ drawn = <<>>
    /\ pc = "loop"
    /\ NoMain
    /\ NoExport
    /\ NoRead /\ data = <<>> /\ NoBatch /\ NoConversion

\* the drawing loop over lists of up to MaxItems detections
Init == CallWith(LoopCanvases, LoopSourceSizes, SeqsUpTo(LoopDetections, MaxItems), FontSizes)
Spec == Init /\ [][Next]_vars

\* draw_bboxes on a single detection, drawn from the wide grid of boxes
InitBox == CallWith(Canvases, SourceSizes, { <<d>> : d \in WideDetections }, {TrueTypeSize})
SpecBox == InitBox /\ [][Next]_vars

-----------------------------------------------------------------------------
\* The label writers: save_yolo_labels of analyze_drone_image.py and
\* save_yolo_labels_auto of analyze_drone_image_yolo.py.  A line of the label
\* file is held as its five space-separated tokens, and a token as its sign,
\* its integer part and the sequence of its decimal digits (empty for an
\* integer, which is printed without a decimal point).

RECURSIVE Pow10(_)
Pow10(k) == IF k = 0 THEN 1 ELSE 10 * Pow10(k - 1)

\* the k digits of m, most significant first, zero-padded
Digits(m, k) == [i \in 1..k |-> (m \div Pow10(k - i)) % 10]

\* f"{a:.kf}": a rounded to k decimal places
Fixed(a, k) ==
    LET m == PyRound(Mul([n |-> Abs(a.n), d |-> a.d], Flt(Pow10(k))))
    IN  [neg |-> a.n < 0, int |-> m \div Pow10(k), frac |-> Digits(m % Pow10(k), k)]

\* f"{a:.2f}"
Fixed2(a) == Fixed(a, 2)

\* f"{a:.6f}"
Fixed6(a) == Fixed(a, 6)

\* f"{class_id}" of an int
IntText(c) == [neg |-> c < 0, int |-> Abs(c), frac |-> << >>]

\* f"{class_id} {x_center:.6f} {y_center:.6f} {width:.6f} {height:.6f}"
LabelLine(class_id, x_center, y_center, width, height) ==
    << IntText(class_id), Fixed6(x_center), Fixed6(y_center), Fixed6(width), Fixed6(height) >>

\* convert_qwen1000_to_yolo(bbox_qwen, class_id) for a 4-number list:
\* [class_id, x_center, y_center, width, height]
\* the conversion with the top-left corner taken for the centre
convert_qwen1000_to_yolo_corner(bbox_qwen, class_id) ==
    IF Len(bbox_qwen) # 4 THEN None
    ELSE LET x1 == Div(bbox_qwen[1], Flt(QwenRange))
             y1 == Div(bbox_qwen[2], Flt(QwenRange))
             x2 == Div(bbox_qwen[3], Flt(QwenRange))
             y2 == Div(bbox_qwen[4], Flt(QwenRange))
         IN  [class_id |-> class_id,
              box |-> << x1, y1, Sub(x2, x1), Sub(y2, y1) >>]

convert_qwen1000_to_yolo(bbox_qwen, class_id) ==
    IF Len(bbox_qwen) # 4 THEN None
    ELSE LET x1 == Div(bbox_qwen[1], Flt(QwenRange))
             y1 == Div(bbox_qwen[2], Flt(QwenRange))
             x2 == Div(bbox_qwen[3], Flt(QwenRange))
             y2 == Div(bbox_qwen[4], Flt(QwenRange))
         IN  [class_id |-> class_id,
              box |-> << Div(Add(x1, x2), Flt(2)), Div(Add(y1, y2), Flt(2)),
                         Sub(x2, x1), Sub(y2, y1) >>]

\* the crack the writer's loop is about to take, and crack.get("bbox_2d", [])
crack == items[eidx + 1]
crack_bbox == crack.bbox_2d

\* the numbers of the list as Python holds them
crack_nums == [i \in DOMAIN crack_bbox.elems |-> ToFloat(crack_bbox.elems[i])]

ExportInLoop == epc = "loop" /\ eidx < Len(items)

\* format_type == "Qwen-1000" and len(bbox) == 4, in save_yolo_labels_auto
TakesQwenBranch ==
    /\ exporter = "save_yolo_labels_auto"
    /\ format_type = "Qwen-1000"
    /\ Len(crack_bbox.elems) = 4

\* len(bbox) >= 5, the only branch of save_yolo_labels and the elif of
\* save_yolo_labels_auto
TakesYoloBranch == ~TakesQwenBranch /\ Len(crack_bbox.elems) >= 5

\* the crack leaves no line
ExportPass ==
    /\ eidx' = eidx + 1
    /\ UNCHANGED <<exporter, format_type, lines, label_file, epc>>

\* lines.append(...)
ExportAppend(toks) ==
    /\ lines' = Append(lines, [from |-> eidx + 1, toks |-> toks])
    /\ eidx' = eidx + 1
    /\ UNCHANGED <<exporter, format_type, label_file, epc>>

\* an exception leaves the writer before the file is opened
ExportRaise ==
    /\ epc' = "raised"
    /\ UNCHANGED <<exporter, format_type, lines, eidx, label_file>>

DrawIdle == UNCHANGED <<img_size, bbox_format, source_size, items, idx, drawn, pc, font_size,
                        mainVars, auxVars>>

\* if not bbox: continue  (save_yolo_labels_auto)
ExportSkipEmpty ==
    /\ ExportInLoop /\ exporter = "save_yolo_labels_auto"
    /\ Len(crack_bbox.elems) = 0
    /\ ExportPass /\ DrawIdle

\* the Qwen-1000 branch: convert, then format
ExportQwen ==
    /\ ExportInLoop /\ TakesQwenBranch /\ crack_bbox.numeric
    /\ LET yolo_bbox == convert_qwen1000_to_yolo(crack_nums, 0)
       IN  ExportAppend(LabelLine(yolo_bbox.class_id, yolo_bbox.box[1], yolo_bbox.box[2],
                                  yolo_bbox.box[3], yolo_bbox.box[4]))
    /\ DrawIdle

\* x1 / 1000.0 on an element that is no number: TypeError
ExportQwenRaises ==
    /\ ExportInLoop /\ TakesQwenBranch /\ ~crack_bbox.numeric
    /\ ExportRaise /\ DrawIdle

\* the len(bbox) >= 5 branch: int(bbox[0]) and float(bbox[1..4])
ExportYolo ==
    /\ ExportInLoop /\ TakesYoloBranch /\ crack_bbox.numeric
    /\ ExportAppend(LabelLine(PyInt(crack_nums[1]), crack_nums[2], crack_nums[3],
                              crack_nums[4], crack_nums[5]))
    /\ DrawIdle

\* int() or float() on an element that is no number: ValueError
ExportYoloRaises ==
    /\ ExportInLoop /\ TakesYoloBranch /\ ~crack_bbox.numeric
    /\ ExportRaise /\ DrawIdle

\* neither branch is taken: the crack is dropped without a line
ExportDrop ==
    /\ ExportInLoop
    /\ exporter = "save_yolo_labels_auto" => Len(crack_bbox.elems) # 0
    /\ ~TakesQwenBranch /\ ~TakesYoloBranch
    /\ ExportPass /\ DrawIdle

NewLine == [nl |-> TRUE, toks |-> << >>]
TextLine(l) == [nl |-> FALSE, toks |-> l.toks]

\* "\n".join(lines)
RECURSIVE Join(_)
Join(ls) ==
    IF Len(ls) = 0 THEN << >>
    ELSE IF Len(ls) = 1 THEN << TextLine(ls[1]) >>
    ELSE << TextLine(ls[1]), NewLine >> \o Join(Tail(ls))

\* FileText with the final "\n" written whether or not there are lines
FileTextAlwaysNewline(ls) == Join(ls) \o << NewLine >>

\* f.write("\n".join(lines)); if lines: f.write("\n")
FileText(ls) == Join(ls) \o (IF Len(ls) > 0 THEN << NewLine >> ELSE << >>)

\* the loop is exhausted: the file is written
ExportWrite ==
    /\ epc = "loop" /\ eidx = Len(items)
    /\ label_file' = << FileText(lines) >>
    /\ epc' = "written"
    /\ UNCHANGED <<exporter, format_type, lines, eidx>>
    /\ DrawIdle

NextExport ==
    \/ ExportSkipEmpty
    \/ ExportQwen
    \/ ExportQwenRaises
    \/ ExportYolo
    \/ ExportYoloRaises
    \/ ExportDrop
    \/ ExportWrite

\* a call of one of the two writers on a list of up to MaxItems cracks
InitExport ==
    /\ exporter \in {"save_yolo_labels", "save_yolo_labels_auto"}
    /\ format_type \in (IF exporter = "save_yolo_labels_auto" THEN FormatTypes ELSE {"YOLO"})
    /\ items \in SeqsUpTo(ExportDetections, MaxItems)
    /\ lines = <<>>
    /\ eidx = 0
    /\ label_file = None
    /\ epc = "loop"
    /\ img_size \in LoopCanvases
    /\ bbox_format = "auto"
    /\ source_size = None
    /\ font_size = TrueTypeSize
    /\ idx = 0
    /\ drawn = <<>>
    /\ pc = "idle"
    /\ NoMain
    /\ NoRead /\ data = <<>> /\ NoBatch /\ NoConversion

SpecExport == InitExport /\ [][NextExport]_vars

-----------------------------------------------------------------------------
\* _read_yolo_label_file of annotate_bboxes_from_url.py.  A line of the file
\* is held as whether it begins with whitespace and as its whitespace-separated
\* tokens; a token as whether it begins with '#', whether float() accepts it,
\* and the value float() gives, in thousandths.

Tok(v) == [hash |-> FALSE, num |-> TRUE, val |-> v]
Word == [hash |-> FALSE, num |-> FALSE, val |-> 0]
HashWord == [hash |-> TRUE, num |-> FALSE, val |-> 0]
FileLine(lead, toks) == [lead |-> lead, toks |-> toks]

\* the lines the reader is run on
LabelFileLines ==
    { FileLine(FALSE, << >>),                                               \* empty line
      FileLine(TRUE, << >>),                                                \* spaces only
      FileLine(FALSE, << HashWord, Word, Word, Word, Word >>),              \* "#cls xc yc w h"
      FileLine(TRUE, << HashWord, Tok(0), Tok(500), Tok(500), Tok(100) >>), \* "  #0 0 0.5 0.5 0.1"
      FileLine(FALSE, << Tok(0), Tok(356), Tok(568), Tok(76), Tok(26) >>),
      FileLine(TRUE, << Tok(1000), Tok(320000), Tok(350000), Tok(400000), Tok(380000) >>),
      FileLine(FALSE, << Tok(520), Tok(410), Tok(80), Tok(50) >>),          \* four tokens
      FileLine(FALSE, << Tok(0), Tok(500), Tok(500), Tok(100), Tok(100), HashWord, Word >>),
      FileLine(FALSE, << Word, Tok(500), Tok(500), Tok(100), Tok(100) >>),  \* "a 0.5 0.5 0.1 0.1"
      FileLine(FALSE, << Tok(0), Tok(500), Tok(500), Tok(100), HashWord >>) }

\* longest label file
MaxLabelLines == 2

\* line = line.strip()
Strip(l) == [l EXCEPT !.lead = FALSE]

\* the line the reader's loop is about to take, stripped
line == Strip(label_lines[ridx + 1])

\* line.startswith("#")
StartsWithHash(l) == ~l.lead /\ Len(l.toks) > 0 /\ l.toks[1].hash

\* not line or line.startswith("#")
BlankOrComment(l) == Len(l.toks) = 0 \/ StartsWithHash(l)

\* parts = line.split()
parts == line.toks

ReadInLoop == rpc = "loop" /\ ridx < Len(label_lines)

ReadFrame ==
    UNCHANGED <<img_size, bbox_format, source_size, idx, drawn, pc, font_size,
                mainVars, exportVars, label_lines, data, batchVars, convVars>>

\* continue
ReadPass == ridx' = ridx + 1 /\ UNCHANGED <<items, rpc>> /\ ReadFrame

\* if not line or line.startswith("#"): continue
ReadSkipBlankOrComment == ReadInLoop /\ BlankOrComment(line) /\ ReadPass

\* if len(parts) != 5: continue
ReadSkipTokenCount ==
    ReadInLoop /\ ~BlankOrComment(line) /\ Len(parts) # 5 /\ ReadPass

\* items.append({"bbox_2d": [float(cls), float(xc), float(yc), float(w), float(h)],
\*               "description": "label"})
ReadAppend ==
    /\ ReadInLoop /\ ~BlankOrComment(line) /\ Len(parts) = 5
    /\ \A i \in 1..5 : parts[i].num
    /\ items' = Append(items,
                    Detection(Box([i \in 1..5 |-> parts[i].val]), Absent, Absent, "label"))
    /\ ridx' = ridx + 1
    /\ UNCHANGED rpc
    /\ ReadFrame

\* float() of a token that is no number: ValueError, caught nowhere
ReadRaises ==
    /\ ReadInLoop /\ ~BlankOrComment(line) /\ Len(parts) = 5
    /\ \E i \in 1..5 : ~parts[i].num
    /\ rpc' = "raised"
    /\ UNCHANGED <<items, ridx>>
    /\ ReadFrame

\* return items
ReadReturn ==
    /\ rpc = "loop" /\ ridx = Len(label_lines)
    /\ rpc' = "returned"
    /\ UNCHANGED <<items, ridx>>
    /\ ReadFrame

NextRead ==
    \/ ReadSkipBlankOrComment
    \/ ReadSkipTokenCount
    \/ ReadAppend
    \/ ReadRaises
    \/ ReadReturn

\* a call of _read_yolo_label_file on a file of up to MaxLabelLines lines
InitRead ==
    /\ label_lines \in SeqsUpTo(LabelFileLines, MaxLabelLines)
    /\ ridx = 0
    /\ rpc = "loop"
    /\ items = <<>>
    /\ img_size \in LoopCanvases
    /\ bbox_format = "auto"
    /\ source_size = None
    /\ font_size = TrueTypeSize
    /\ idx = 0
    /\ drawn = <<>>
    /\ pc = "idle"
    /\ NoMain
    /\ NoExport
    /\ data = <<>> /\ NoBatch /\ NoConversion

SpecRead == InitRead /\ [][NextRead]_vars

-----------------------------------------------------------------------------
\* main() of annotate_bboxes_from_url.py, from the point where the image is
\* loaded and the items are read (from --labels, or from --data / DEFAULT_DATA
\* through parse_items)

\* if not items: sys.exit(1), on the --data path only
MainNoItems ==
    /\ pc = "main"
    /\ ~from_labels
    /\ items = <<>>
    /\ pc' = "exit"
    /\ exit_status' = <<1>>
    /\ UNCHANGED <<img_size, bbox_format, source_size, items, idx, drawn, font_size,
                   from_labels, exportVars, auxVars>>

\* annotated = draw_bboxes(img, items, bbox_format=args.bbox_format, ...);
\* with --labels, "auto" has become "yolo_norm5"
MainCallDraw ==
    /\ pc = "main"
    /\ from_labels \/ items # <<>>
    /\ bbox_format' = IF from_labels /\ bbox_format = "auto" THEN "yolo_norm5" ELSE bbox_format
    /\ pc' = "loop"
    /\ UNCHANGED <<img_size, source_size, items, idx, drawn, font_size, mainVars, exportVars, auxVars>>

\* annotated.save(args.out): main() returns, the process ends with status 0
MainSave ==
    /\ pc = "done"
    /\ pc' = "exit"
    /\ exit_status' = <<0>>
    /\ UNCHANGED <<img_size, bbox_format, source_size, items, idx, drawn, font_size,
                   from_labels, exportVars, auxVars>>

\* the exception that left draw_bboxes is caught nowhere: traceback, status 1
MainTraceback ==
    /\ pc = "raised"
    /\ pc' = "exit"
    /\ exit_status' = <<1>>
    /\ UNCHANGED <<img_size, bbox_format, source_size, items, idx, drawn, font_size,
                   from_labels, exportVars, auxVars>>

\* The mapping main() parses.  A value of the mapping is a list of elements
\* or something else; an element is a dict (held as the three box keys it may
\* carry and its description) or something else.

Dict(d) == [isdict |-> TRUE, det |-> d]
NotADict == [isdict |-> FALSE, det |-> Detection(Absent, Absent, Absent, "")]
ListValue(els) == [islist |-> TRUE, els |-> els]
NotAList == [islist |-> FALSE, els |-> << >>]

\* the values the mappings are built from
DataValues ==
    { NotAList,                                                  \* "version": "1.0"
      ListValue(<< >>),                                          \* "cracks": []
      ListValue(<< Dict(Crack(<<520, 410, 80, 50>>)), NotADict,
                   Dict(Detection(Absent, Absent, Absent, "note")) >>),
      ListValue(<< Dict(Detection(Box(<<>>), Box(<<520, 410, 80, 50>>),
                                  Box(<<5000, 5000>>), "crack")),
                   Dict(Crack(<<0, 356, 568, 76, 26>>)) >>),
      ListValue(<< Dict(Crack(<<>>)),
                   Dict(Detection(NonNumericBox(<<10000, 20000, 30000, 40000>>),
                                  Absent, Absent, "crack")),
                   Dict(Crack(<<5000, 5000>>)) >>),
      ListValue(<< Dict(Detection(Absent, Absent, Absent, "note")) >>),
      ListValue(<< Dict(Detection(Absent, Absent, Box(<<0, 356, 568, 76, 26>>), "label")) >>) }

\* most values in a mapping
MaxValues == 2

\* "bbox_2d" in el or "bbox" in el or "yolo" in el
HasBoxKey(d) == d.bbox_2d.present \/ d.bbox.present \/ d.yolo.present

\* the inner loop of parse_items, keeping every dict whatever its keys
RECURSIVE ItemsOfListAnyDict(_)
ItemsOfListAnyDict(els) ==
    IF Len(els) = 0 THEN << >>
    ELSE (IF els[1].isdict THEN << els[1].det >> ELSE << >>)
            \o ItemsOfListAnyDict(Tail(els))

\* for el in v: if isinstance(el, dict) and (a box key in el): items.append(el)
RECURSIVE ItemsOfList(_)
ItemsOfList(els) ==
    IF Len(els) = 0 THEN << >>
    ELSE (IF els[1].isdict /\ HasBoxKey(els[1].det) THEN << els[1].det >> ELSE << >>)
            \o ItemsOfList(Tail(els))

\* for v in data.values(): if isinstance(v, list): ...
RECURSIVE parse_items(_)
parse_items(values) ==
    IF Len(values) = 0 THEN << >>
    ELSE (IF values[1].islist THEN ItemsOfList(values[1].els) ELSE << >>)
            \o parse_items(Tail(values))

\* items = parse_items(data)
MainParseItems ==
    /\ pc = "parse"
    /\ items' = parse_items(data)
    /\ pc' = "main"
    /\ UNCHANGED <<img_size, bbox_format, source_size, idx, drawn, font_size,
                   mainVars, exportVars, auxVars>>

NextMain ==
    \/ MainNoItems
    \/ MainCallDraw
    \/ Next
    \/ MainSave
    \/ MainTraceback

InitMain ==
    /\ img_size \in LoopCanvases
    /\ font_size = TrueTypeSize
    /\ bbox_format \in Formats
    /\ source_size \in LoopSourceSizes
    /\ from_labels \in BOOLEAN
    /\ items \in SeqsUpTo(IF from_labels THEN LabelFileDetections ELSE ParsedDetections,
                          MaxItems)
    /\ idx = 0
    /\ drawn = <<>>
    /\ pc = "main"
    /\ exit_status = None
    /\ NoExport
    /\ NoRead /\ data = <<>> /\ NoBatch /\ NoConversion

\* the annotate program from its items to its exit
SpecMain == InitMain /\ [][NextMain]_vars

InitParse ==
    /\ data \in SeqsUpTo(DataValues, MaxValues)
    /\ items = <<>>
    /\ pc = "parse"
    /\ from_labels = FALSE
    /\ exit_status = None
    /\ img_size \in LoopCanvases
    /\ font_size = TrueTypeSize
    /\ bbox_format \in Formats
    /\ source_size \in {None, <<0, 640>>}
    /\ idx = 0
    /\ drawn = <<>>
    /\ NoExport
    /\ NoRead /\ NoBatch /\ NoConversion

\* the annotate program on --data, from the parsed JSON to its exit
SpecParse == InitParse /\ [][MainParseItems \/ NextMain]_vars

-----------------------------------------------------------------------------
\* batch_process_images.py: main reads the URLs file, asks for confirmation
\* and runs process_single_image on each URL in turn.  log records what each
\* call did, in order.

MaxUrlLines == 3

\* A line of the URLs file: whitespace around it or not, a leading '#' or
\* not, and the rest of its text.
UrlFileLines ==
    { [pad |-> FALSE, hash |-> FALSE, body |-> ""],
      [pad |-> TRUE,  hash |-> FALSE, body |-> ""],
      [pad |-> TRUE,  hash |-> TRUE,  body |-> "u1"],
      [pad |-> FALSE, hash |-> FALSE, body |-> "u1"],
      [pad |-> TRUE,  hash |-> FALSE, body |-> "u2"] }

\* line.strip()
StripUrlLine(l) == [l EXCEPT !.pad = FALSE]

\* read_urls_from_file: the stripped lines that are not empty and do not
\* start with '#', in the order of the file
read_urls_from_file(f) ==
    LET stripped == [i \in 1..Len(f) |-> StripUrlLine(f[i])]
        kept == SelectSeq(stripped,
                          LAMBDA l : (l.hash \/ l.body # "") /\ ~l.hash)
    IN  [i \in 1..Len(kept) |-> kept[i].body]

\* what input("Continue? (y/n): ") may return
Responses == { "y", "Y", "n", "" }
Lower(r) == IF r = "Y" THEN "y" ELSE r

\* exit codes os.system may report
ExitCodes == { 0, 256 }

BatchFrame ==
    UNCHANGED <<img_size, bbox_format, source_size, items, idx, drawn, pc, font_size,
                mainVars, exportVars, readVars, data, convVars, url_lines>>

Event(step) == [index |-> bidx, step |-> step]

\* a missing script or a missing URLs file: sys.exit(1)
BatchMissingFiles ==
    /\ bpc = "start"
    /\ bpc' = "exit1"
    /\ UNCHANGED <<urls, bidx, success_count, failed_count, log>>
    /\ BatchFrame

\* urls = read_urls_from_file(args.urls); sys.exit(1) when there is none
BatchReadUrls ==
    /\ bpc = "start"
    /\ urls' = read_urls_from_file(url_lines)
    /\ bpc' = IF urls' = <<>> THEN "exit1" ELSE "confirm"
    /\ UNCHANGED <<bidx, success_count, failed_count, log>>
    /\ BatchFrame

\* the confirmation prompt; the counters start at 0
BatchConfirm ==
    /\ bpc = "confirm"
    /\ \E response \in Responses :
          bpc' = IF Lower(response) # "y" THEN "cancelled" ELSE "loop"
    /\ success_count' = 0
    /\ failed_count' = 0
    /\ UNCHANGED <<urls, bidx, log>>
    /\ BatchFrame

\* for idx, url in enumerate(urls, start=1): the next URL, if there is one
BatchTake ==
    /\ bpc = "loop"
    /\ bidx < Len(urls)
    /\ bidx' = bidx + 1
    /\ bpc' = "analysis"
    /\ log' = Append(log, [index |-> bidx + 1, step |-> "start"])
    /\ UNCHANGED <<urls, success_count, failed_count>>
    /\ BatchFrame

\* the loop is exhausted: the summary is printed
BatchEnd ==
    /\ bpc = "loop"
    /\ bidx = Len(urls)
    /\ bpc' = "summary"
    /\ UNCHANGED <<urls, bidx, success_count, failed_count, log>>
    /\ BatchFrame

\* a failure that ends the loop
CountFailedAndBreak ==
    /\ failed_count' = failed_count + 1
    /\ UNCHANGED success_count
    /\ bpc' = "summary"

\* failed_count += 1, and the loop goes on
CountFailed ==
    /\ failed_count' = failed_count + 1
    /\ UNCHANGED success_count
    /\ bpc' = "loop"

\* success_count += 1, and the loop goes on
CountSuccess ==
    /\ success_count' = success_count + 1
    /\ UNCHANGED failed_count
    /\ bpc' = "loop"

\* process_single_image returns False
ReturnFalse(events) ==
    /\ log' = log \o events \o << Event("return_false") >>
    /\ CountFailed

\* process_single_image returns True
ReturnTrue(events) ==
    /\ log' = log \o events \o << Event("return_true") >>
    /\ CountSuccess

\* Step 1: os.system runs the analysis; a non-zero result returns False
RunAnalysis ==
    /\ bpc = "analysis"
    /\ \E result \in ExitCodes :
          IF result # 0
          THEN ReturnFalse(<< Event("analysis_failed") >>)
          ELSE /\ log' = Append(log, Event("analysis_ok"))
               /\ bpc' = "check"
               /\ UNCHANGED <<success_count, failed_count>>
    /\ UNCHANGED <<urls, bidx>>
    /\ BatchFrame

\* if not os.path.exists(json_file): return False
CheckJson ==
    /\ bpc = "check"
    /\ \E exists \in BOOLEAN :
          IF ~exists
          THEN ReturnFalse(<< Event("json_missing") >>)
          ELSE /\ log' = Append(log, Event("json_found"))
               /\ bpc' = "organise"
               /\ UNCHANGED <<success_count, failed_count>>
    /\ UNCHANGED <<urls, bidx>>
    /\ BatchFrame

\* Step 2: the output folder is made and the files that exist are moved
Organise ==
    /\ bpc = "organise"
    /\ log' = Append(log, Event("moved"))
    /\ bpc' = "annotate"
    /\ UNCHANGED <<urls, bidx, success_count, failed_count>>
    /\ BatchFrame

\* os.makedirs or shutil.move raises: main's except Exception counts a failure
OrganiseRaises ==
    /\ bpc = "organise"
    /\ log' = Append(log, Event("raised"))
    /\ CountFailed
    /\ UNCHANGED <<urls, bidx>>
    /\ BatchFrame

\* the value returned after the annotation step, by its exit code
AnnotationReturnByResult(result) == result = 0

\* return True after the annotation step, whatever its exit code
AnnotationReturn(result) == TRUE

\* Step 3: os.system runs the annotation
RunAnnotate ==
    /\ bpc = "annotate"
    /\ \E result \in ExitCodes :
          LET ev == << Event(IF result # 0 THEN "annotate_failed" ELSE "annotate_ok") >>
          IN  IF AnnotationReturn(result) THEN ReturnTrue(ev) ELSE ReturnFalse(ev)
    /\ UNCHANGED <<urls, bidx>>
    /\ BatchFrame

\* KeyboardInterrupt inside process_single_image: main prints and breaks
BatchInterrupt ==
    /\ bpc \in { "analysis", "check", "organise", "annotate" }
    /\ log' = Append(log, Event("interrupted"))
    /\ bpc' = "summary"
    /\ UNCHANGED <<urls, bidx, success_count, failed_count>>
    /\ BatchFrame

NextBatch ==
    \/ BatchMissingFiles \/ BatchReadUrls \/ BatchConfirm
    \/ BatchTake \/ BatchEnd
    \/ RunAnalysis \/ CheckJson \/ Organise \/ OrganiseRaises \/ RunAnnotate
    \/ BatchInterrupt

InitBatch ==
    /\ url_lines \in SeqsUpTo(UrlFileLines, MaxUrlLines)
    /\ urls = <<>>
    /\ bidx = 0
    /\ bpc = "start"
    /\ success_count = 0
    /\ failed_count = 0
    /\ log = <<>>
    /\ img_size \in { <<1000, 800>> }
    /\ pc = "idle"
    /\ items = <<>>
    /\ idx = 0
    /\ drawn = <<>>
    /\ bbox_format = "auto"
    /\ source_size = None
    /\ font_size = TrueTypeSize
    /\ NoMain /\ NoExport /\ NoRead /\ data = <<>> /\ NoConversion

\* the batch wrapper from the URLs file to its summary
SpecBatch == InitBatch /\ [][NextBatch]_vars

-----------------------------------------------------------------------------
\* Conversion chains: a box is converted into another encoding and the result
\* is turned into pixel corners by the helpers of annotate_bboxes_from_url.py.
\* The conversion from pixel corners into an encoding (toEncoding) is written
\* from the specification: the source has no such function.

\* a rounded to k decimal places
RoundAt(a, k) == Frac(PyRound(Mul(a, Flt(Pow10(k)))), Pow10(k))

\* toEncoding(pixelCorners, targetEncoding, canvas): the exact inverse of the
\* conversion to pixel corners
toEncoding(p, target, im_w, im_h) ==
    IF target = "YoloNormalized"
    THEN << Frac(p[1] + p[3], 2 * im_w), Frac(p[2] + p[4], 2 * im_h),
            Frac(p[3] - p[1], im_w), Frac(p[4] - p[2], im_h) >>
    ELSE << Frac(p[1] * QwenRange, im_w), Frac(p[2] * QwenRange, im_h),
            Frac(p[3] * QwenRange, im_w), Frac(p[4] * QwenRange, im_h) >>

\* the encoded box as exportLabels prints it: 6 decimal places for the
\* normalized form, 2 for the 0..1000 form
Printed(m, target) ==
    LET k == IF target = "YoloNormalized" THEN 6 ELSE 2
    IN  [i \in 1..4 |-> RoundAt(m[i], k)]

\* the canvases and the pixel boxes inside them that the chains start from
ChainCanvases == Canvases \cup { <<7, 3>> }
PixelColumns(w) == { 0, 1, w \div 3, (2 * w) \div 3, w - 1 }
PixelBoxes(w, h) ==
    { <<x1, y1, x2, y2>> : x1 \in PixelColumns(w), y1 \in PixelColumns(h),
                            x2 \in PixelColumns(w), y2 \in PixelColumns(h) }

ChainFrame ==
    UNCHANGED <<img_size, bbox_format, source_size, items, idx, drawn, pc, font_size,
                mainVars, exportVars, readVars, data, batchVars, cv_in, cv_kind>>

\* pixel corners into the target encoding, exactly or as printed
EncodePixels ==
    /\ cpc = "start"
    /\ cv_kind.chain = "roundtrip"
    /\ LET m == toEncoding(cv_in, cv_kind.target, img_w, img_h)
       IN  cv_mid' = IF cv_kind.printed THEN Printed(m, cv_kind.target) ELSE m
    /\ cpc' = "converted"
    /\ UNCHANGED cv_out
    /\ ChainFrame

\* convert_qwen1000_to_yolo(bbox_qwen, class_id) on a box of Qwen-1000 numbers
ConvertQwen ==
    /\ cpc = "start"
    /\ cv_kind.chain = "qwen_to_yolo"
    /\ cv_mid' = convert_qwen1000_to_yolo(cv_in, cv_kind.class_id)
    /\ cpc' = IF cv_mid' = None THEN "none" ELSE "converted"
    /\ UNCHANGED cv_out
    /\ ChainFrame

\* _yolo_to_corners(..., normalized=True) or _qwen1000_to_corners on the
\* converted box
DecodeToPixels ==
    /\ cpc = "converted"
    /\ LET m == IF cv_kind.chain = "qwen_to_yolo" THEN cv_mid.box ELSE cv_mid
       IN  cv_out' = IF cv_kind.target = "YoloNormalized"
                     THEN _yolo_to_corners(m[1], m[2], m[3], m[4], img_w, img_h, TRUE)
                     ELSE _qwen1000_to_corners(m[1], m[2], m[3], m[4], img_w, img_h)
    /\ cpc' = "done"
    /\ UNCHANGED cv_mid
    /\ ChainFrame

\* the chain stands still: nothing else runs
ChainIdle ==
    /\ pc = "idle"
    /\ items = <<>>
    /\ idx = 0
    /\ drawn = <<>>
    /\ bbox_format = "auto"
    /\ source_size = None
    /\ font_size = TrueTypeSize
    /\ NoMain /\ NoExport /\ NoRead /\ data = <<>> /\ NoBatch

InitRoundTrip ==
    /\ img_size \in ChainCanvases
    /\ cv_in \in PixelBoxes(img_w, img_h)
    /\ cv_kind \in [chain : {"roundtrip"}, target : {"YoloNormalized", "Qwen1000"},
                     printed : BOOLEAN]
    /\ cv_mid = None
    /\ cv_out = None
    /\ cpc = "start"
    /\ ChainIdle

\* the numbers of the Qwen-1000 boxes the conversion is given, in and around
\* 0..1000, and the boxes: four numbers, or a list of another length
QwenNumbers == { Flt(0), Flt(1), Flt(333), Frac(501, 2), Flt(617), Flt(QwenRange) }
QwenBoxes ==
    { <<x1, y1, x2, y2>> : x1 \in QwenNumbers, y1 \in QwenNumbers,
                            x2 \in QwenNumbers, y2 \in QwenNumbers }
    \cup { <<>>, <<Flt(100), Flt(200), Flt(300)>>,
           <<Flt(0), Flt(100), Flt(200), Flt(300), Flt(400)>> }
ClassIds == { 0, 2 }

InitQwenToYolo ==
    /\ img_size \in ChainCanvases
    /\ cv_in \in QwenBoxes
    /\ cv_kind \in [chain : {"qwen_to_yolo"}, target : {"YoloNormalized"},
                     printed : {FALSE}, class_id : ClassIds]
    /\ cv_mid = None
    /\ cv_out = None
    /\ cpc = "start"
    /\ ChainIdle

\* a Qwen-1000 box into the normalized center form and on to pixel corners
SpecQwenToYolo == InitQwenToYolo /\ [][ConvertQwen \/ DecodeToPixels]_vars

\* pixel corners into an encoding and back
SpecRoundTrip == InitRoundTrip /\ [][EncodePixels \/ DecodeToPixels]_vars

-----------------------------------------------------------------------------
\* What the properties below are stated with

\* the list the j-th detection was drawn from, in thousandths
ElemsAt(j) == GetBBox(items[j]).elems

\* a list element as an exact value
Val(m) == Frac(m, Milli(1))

\* the four numbers of a 4- or 5-number list that carry the box
Coords(e) == IF Len(e) = 5 THEN << e[2], e[3], e[4], e[5] >> ELSE e

\* n is an integer nearest to a
RoundsTo(n, a) == Abs(2 * (n * a.d - a.n)) <= a.d

ClampTo(n, limit) ==
    IF n < 0 THEN 0 ELSE IF n > limit - 1 THEN limit - 1 ELSE n

Floor(a) == a.n \div a.d

\* p is a rounded to the nearest integer and then clamped into 0 .. limit-1
RoundedClamped(p, a, limit) ==
    \E n \in {Floor(a), Floor(a) + 1} : RoundsTo(n, a) /\ p = ClampTo(n, limit)

\* the j-th detection reached the format dispatch
ParsedAt(j) == Truthy(GetBBox(items[j])) /\ GetBBox(items[j]).numeric

\* the j-th detection was drawn
DrawnAt(j) == \E k \in DOMAIN drawn : drawn[k].idx = j

InUnit(m) == 0 <= m /\ m <= 1000
InThousand(m) == 0 <= m /\ m <= 1000000

\* the ordered rule of the specification on four numbers, with the encoding
\* that the third row names
RangeRule(q, otherwise) ==
    IF \A i \in 1..4 : InUnit(q[i]) THEN "YoloNormalized"
    ELSE IF (\A i \in 1..4 : InThousand(q[i])) /\ (\E i \in 1..4 : q[i] > 1000)
         THEN "Qwen1000"
    ELSE otherwise

-----------------------------------------------------------------------------
\* C1: under bbox_format "auto" every 4-number box is drawn, and the branch
\* that converts it is YoloNormalized when all four values lie in [0,1], else
\* Qwen1000 when all four lie in [0,1000] and one exceeds 1, else Corners,
\* which is exactly the case of a value below 0 or above 1000; the three
\* example boxes of the specification fall in the three rows, in that order.
C1_AutoClassifiesFourNumbers ==
    bbox_format = "auto" =>
        /\ \A j \in 1..idx : (ParsedAt(j) /\ Len(ElemsAt(j)) = 4) => DrawnAt(j)
        /\ \A k \in DOMAIN drawn :
            LET d == drawn[k]
                e == ElemsAt(d.idx)
            IN  Len(e) = 4 =>
                  /\ d.enc = RangeRule(e, "Corners")
                  /\ d.enc = "Corners" <=> \E i \in 1..4 : e[i] < 0 \/ e[i] > 1000000
                  /\ e = <<520, 410, 80, 50>> =>
                        /\ d.enc = "YoloNormalized"
                        /\ img_size = <<1000, 800>> => d.px = <<480, 308, 560, 348>>
                  /\ e = <<250000, 250000, 500000, 500000>> =>
                        /\ d.enc = "Qwen1000"
                        /\ img_size = <<1000, 800>> => d.px = <<250, 200, 500, 400>>
                  /\ e = <<1200000, 300000, 1400000, 500000>> =>
                        /\ d.enc = "Corners"
                        /\ d.px = <<1200, 300, 1400, 500>>

\* a 4-number box with a value of exactly 1.0 and none above was drawn under "auto"
C1_Witness ==
    /\ bbox_format = "auto"
    /\ \E k \in DOMAIN drawn :
        LET e == ElemsAt(drawn[k].idx)
        IN  /\ Len(e) = 4
            /\ \E i \in 1..4 : e[i] = 1000
            /\ drawn[k].enc = "YoloNormalized"

\* C2: under bbox_format "auto" every 5-number box is drawn, and the branch
\* that converts it follows from the same range tests on elements 2..5 alone:
\* YoloNormalized, else Qwen1000, else YoloAbsolute and never Corners; the
\* first element takes no part.
C2_AutoClassifiesFiveNumbers ==
    bbox_format = "auto" =>
        /\ \A j \in 1..idx : (ParsedAt(j) /\ Len(ElemsAt(j)) = 5) => DrawnAt(j)
        /\ \A k \in DOMAIN drawn :
            LET d == drawn[k]
                e == ElemsAt(d.idx)
            IN  Len(e) = 5 =>
                  /\ d.enc = RangeRule(<< e[2], e[3], e[4], e[5] >>, "YoloAbsolute")
                  /\ d.enc # "Corners"

\* a 5-number box whose class_id is outside [0,1000] and whose other four
\* values are in the Qwen range was drawn as Qwen1000 under "auto"
C2_Witness ==
    /\ bbox_format = "auto"
    /\ \E k \in DOMAIN drawn :
        LET e == ElemsAt(drawn[k].idx)
        IN  /\ Len(e) = 5
            /\ e[1] > 1000000
            /\ drawn[k].enc = "Qwen1000"

\* the encoding each explicit hint names
HintEncoding(f) ==
    CASE f = "corners" -> "Corners"
      [] f \in {"yolo_norm", "yolo_norm5"} -> "YoloNormalized"
      [] f \in {"yolo_abs", "yolo_abs5"} -> "YoloAbsolute"
      [] f \in {"qwen1000", "qwen1000_5"} -> "Qwen1000"

\* C3: under an explicit hint the conversion branch is the one the hint names,
\* whatever the values: a box inside [0,1] under a qwen hint is scaled by
\* canvas/1000, and a box with values above 1 under a yolo_norm hint is
\* multiplied by the canvas size.
C3_HintDecidesBranch ==
    bbox_format # "auto" =>
        \A k \in DOMAIN drawn :
            LET d == drawn[k]
                e == ElemsAt(d.idx)
                q == Coords(e)
            IN  /\ d.enc = HintEncoding(bbox_format)
                /\ (bbox_format \in {"qwen1000", "qwen1000_5"}) =>
                      /\ RoundedClamped(d.px[1], Div(Mul(Val(q[1]), Flt(img_w)), Flt(1000)), img_w)
                      /\ RoundedClamped(d.px[4], Div(Mul(Val(q[4]), Flt(img_h)), Flt(1000)), img_h)
                /\ (bbox_format \in {"yolo_norm", "yolo_norm5"}) =>
                      /\ RoundedClamped(d.px[3],
                            Mul(Add(Val(q[1]), Div(Val(q[3]), Flt(2))), Flt(img_w)), img_w)
                      /\ RoundedClamped(d.px[4],
                            Mul(Add(Val(q[2]), Div(Val(q[4]), Flt(2))), Flt(img_h)), img_h)
                /\ (bbox_format = "yolo_norm" /\ img_size = <<1000, 800>>
                        /\ e = <<250000, 250000, 500000, 500000>>) =>
                      d.px = <<0, 0, 999, 799>>

\* a box with all values inside [0,1] was drawn under the hint qwen1000
C3_Witness ==
    /\ bbox_format = "qwen1000"
    /\ \E k \in DOMAIN drawn :
        /\ \A i \in 1..4 : InUnit(ElemsAt(drawn[k].idx)[i])
        /\ Len(ElemsAt(drawn[k].idx)) = 4
        /\ drawn[k].enc = "Qwen1000"

\* C4: every drawn rectangle lies inside the canvas:
\* 0 <= x1, x2 <= W-1 and 0 <= y1, y2 <= H-1, whatever the branch.
C4_EveryBranchClamps ==
    \A k \in DOMAIN drawn :
        LET px == drawn[k].px
        IN  /\ 0 <= px[1] /\ px[1] <= img_w - 1
            /\ 0 <= px[3] /\ px[3] <= img_w - 1
            /\ 0 <= px[2] /\ px[2] <= img_h - 1
            /\ 0 <= px[4] /\ px[4] <= img_h - 1

\* C5: with no source size, a box drawn as Corners has each coordinate
\* rounded to the nearest integer and then clamped into the canvas.
C5_CornersRoundedAndClamped ==
    source_size = None =>
        \A k \in DOMAIN drawn :
            LET d == drawn[k]
                e == ElemsAt(d.idx)
            IN  d.enc = "Corners" =>
                  /\ RoundedClamped(d.px[1], Val(e[1]), img_w)
                  /\ RoundedClamped(d.px[2], Val(e[2]), img_h)
                  /\ RoundedClamped(d.px[3], Val(e[3]), img_w)
                  /\ RoundedClamped(d.px[4], Val(e[4]), img_h)

\* C6: a box drawn as YoloNormalized has x1 = round(xc*W - w*W/2),
\* y1 = round(yc*H - h*H/2), x2 = round(xc*W + w*W/2), y2 = round(yc*H + h*H/2),
\* each clamped into the canvas; [0,0.356,0.568,0.076,0.026] on a 1000x800
\* canvas gives (318,444,394,465).
C6_YoloNormalizedCorners ==
    \A k \in DOMAIN drawn :
        LET d == drawn[k]
            e == ElemsAt(d.idx)
            q == Coords(e)
            xcW == Mul(Val(q[1]), Flt(img_w))
            ycH == Mul(Val(q[2]), Flt(img_h))
            wW == Mul(Val(q[3]), Flt(img_w))
            hH == Mul(Val(q[4]), Flt(img_h))
        IN  d.enc = "YoloNormalized" =>
              /\ RoundedClamped(d.px[1], Sub(xcW, Div(wW, Flt(2))), img_w)
              /\ RoundedClamped(d.px[2], Sub(ycH, Div(hH, Flt(2))), img_h)
              /\ RoundedClamped(d.px[3], Add(xcW, Div(wW, Flt(2))), img_w)
              /\ RoundedClamped(d.px[4], Add(ycH, Div(hH, Flt(2))), img_h)
              /\ (img_size = <<1000, 800>> /\ e = <<0, 356, 568, 76, 26>>) =>
                    d.px = <<318, 444, 394, 465>>

\* the example box of the specification was drawn as YoloNormalized on the
\* 1000x800 canvas
C6_Witness ==
    /\ img_size = <<1000, 800>>
    /\ \E k \in DOMAIN drawn :
        /\ ElemsAt(drawn[k].idx) = <<0, 356, 568, 76, 26>>
        /\ drawn[k].enc = "YoloNormalized"
        /\ drawn[k].px = <<318, 444, 394, 465>>

\* C7: a box drawn as Qwen1000 has x1 = round(x1*W/1000), y1 = round(y1*H/1000),
\* x2 = round(x2*W/1000), y2 = round(y2*H/1000), each clamped into the canvas;
\* [320,350,400,380] on a 1920x1080 canvas gives (614,378,768,410).
C7_Qwen1000Corners ==
    \A k \in DOMAIN drawn :
        LET d == drawn[k]
            e == ElemsAt(d.idx)
            q == Coords(e)
        IN  d.enc = "Qwen1000" =>
              /\ RoundedClamped(d.px[1], Div(Mul(Val(q[1]), Flt(img_w)), Flt(1000)), img_w)
              /\ RoundedClamped(d.px[2], Div(Mul(Val(q[2]), Flt(img_h)), Flt(1000)), img_h)
              /\ RoundedClamped(d.px[3], Div(Mul(Val(q[3]), Flt(img_w)), Flt(1000)), img_w)
              /\ RoundedClamped(d.px[4], Div(Mul(Val(q[4]), Flt(img_h)), Flt(1000)), img_h)
              /\ (img_size = <<1920, 1080>> /\ e = <<320000, 350000, 400000, 380000>>) =>
                    d.px = <<614, 378, 768, 410>>

\* the example box of the specification was drawn as Qwen1000 on the
\* 1920x1080 canvas
C7_Witness ==
    /\ img_size = <<1920, 1080>>
    /\ \E k \in DOMAIN drawn :
        /\ ElemsAt(drawn[k].idx) = <<320000, 350000, 400000, 380000>>
        /\ drawn[k].enc = "Qwen1000"
        /\ drawn[k].px = <<614, 378, 768, 410>>

\* a source size with a positive width and height
PositiveSource == source_size # None /\ source_size[1] > 0 /\ source_size[2] > 0

\* a source size with a zero width or height
ZeroSource == source_size # None /\ (source_size[1] = 0 \/ source_size[2] = 0)

\* W/srcW and H/srcH under a positive source size, 1 without a source size
ScaleX == IF PositiveSource THEN Div(Flt(img_w), Flt(source_size[1])) ELSE Flt(1)
ScaleY == IF PositiveSource THEN Div(Flt(img_h), Flt(source_size[2])) ELSE Flt(1)

\* p is a turned into an integer less than 1 away, clamped into the canvas or not
NearPixel(p, a, limit) ==
    \E n \in {Floor(a), Floor(a) + 1} : p = n \/ p = ClampTo(n, limit)

\* C8: a box drawn as Corners, whether by the hint or by the auto rule, has
\* its x coordinates scaled by W/srcW and its y coordinates by H/srcH when a
\* source size is given, and unscaled when none is given.  (Stated up to the
\* way the scaled value becomes an integer, which C5 is about.)
C8_CornersRescaledBySource ==
    (PositiveSource \/ source_size = None) =>
        \A k \in DOMAIN drawn :
            LET d == drawn[k]
                e == ElemsAt(d.idx)
            IN  d.enc = "Corners" =>
                  /\ NearPixel(d.px[1], Mul(Val(e[1]), ScaleX), img_w)
                  /\ NearPixel(d.px[2], Mul(Val(e[2]), ScaleY), img_h)
                  /\ NearPixel(d.px[3], Mul(Val(e[3]), ScaleX), img_w)
                  /\ NearPixel(d.px[4], Mul(Val(e[4]), ScaleY), img_h)

\* C9: a box drawn as YoloAbsolute has the corners round(xc -/+ w/2),
\* round(yc -/+ h/2), clamped, with xc, w multiplied by W/srcW and yc, h by
\* H/srcH first when a source size is given, and never by the canvas size.
C9_YoloAbsoluteCorners ==
    (PositiveSource \/ source_size = None) =>
        \A k \in DOMAIN drawn :
            LET d == drawn[k]
                q == Coords(ElemsAt(d.idx))
                xc == Mul(Val(q[1]), ScaleX)
                yc == Mul(Val(q[2]), ScaleY)
                w == Mul(Val(q[3]), ScaleX)
                h == Mul(Val(q[4]), ScaleY)
            IN  d.enc = "YoloAbsolute" =>
                  /\ RoundedClamped(d.px[1], Sub(xc, Div(w, Flt(2))), img_w)
                  /\ RoundedClamped(d.px[2], Sub(yc, Div(h, Flt(2))), img_h)
                  /\ RoundedClamped(d.px[3], Add(xc, Div(w, Flt(2))), img_w)
                  /\ RoundedClamped(d.px[4], Add(yc, Div(h, Flt(2))), img_h)

\* C10: under a source size with a zero width or height nothing is raised,
\* and a box drawn as Corners or YoloAbsolute gets the corners it gets with
\* no source size at all.
C10_ZeroSourceMeansNoRescale ==
    ZeroSource =>
        /\ pc # "raised"
        /\ \A k \in DOMAIN drawn :
            LET d == drawn[k]
                e == ElemsAt(d.idx)
                q == [i \in 1..4 |-> Val(Coords(e)[i])]
            IN  /\ d.enc = "Corners" => d.px = MapInt(q)
                /\ d.enc = "YoloAbsolute" =>
                      d.px = _yolo_to_corners(q[1], q[2], q[3], q[4], img_w, img_h, FALSE)

\* the encoding the format and the numbers of a box decide between them,
\* with no look at the source size
SourceFreeEncoding(f, e) ==
    IF f = "auto"
    THEN IF Len(e) = 5 THEN RangeRule(Coords(e), "YoloAbsolute")
         ELSE RangeRule(e, "Corners")
    ELSE HintEncoding(f)

\* C11: the source size never changes which conversion branch a box takes,
\* and a box drawn as YoloNormalized or Qwen1000 gets the pixel corners it
\* gets with no source size: the branch is the one the format and the numbers
\* decide, and the corners are those of the helper run on the box as given.
C11_SourceNeverChangesEncoding ==
    /\ pc = "raised" => HintEncoding(bbox_format) = "YoloAbsolute"
    /\ \A k \in DOMAIN drawn :
        LET d == drawn[k]
            e == ElemsAt(d.idx)
            q == [i \in 1..4 |-> Val(Coords(e)[i])]
        IN  /\ d.enc = SourceFreeEncoding(bbox_format, e)
            /\ d.enc = "YoloNormalized" =>
                  d.px = _yolo_to_corners(q[1], q[2], q[3], q[4], img_w, img_h, TRUE)
            /\ d.enc = "Qwen1000" =>
                  d.px = _qwen1000_to_corners(q[1], q[2], q[3], q[4], img_w, img_h)

\* the normalized example box was drawn under a yolo_norm hint with a source
\* size twice the canvas width and half its height
C11_Witness ==
    /\ source_size = <<2000, 400>>
    /\ bbox_format = "yolo_norm5"
    /\ img_size = <<1000, 800>>
    /\ \E k \in DOMAIN drawn :
        /\ ElemsAt(drawn[k].idx) = <<0, 356, 568, 76, 26>>
        /\ drawn[k].enc = "YoloNormalized"
        /\ drawn[k].px = <<318, 444, 394, 465>>

\* C12: an inverted box is never put right.  A box drawn as Corners or
\* Qwen1000 with x1 > x2 (y1 > y2), and a box drawn from a center form with a
\* negative width (height), keeps x1 >= x2 (y1 >= y2) in pixels: when the two
\* pixel coordinates are still distinct after rounding and clamping, the
\* first is the larger one.
C12_InvertedBoxesStayInverted ==
    \A k \in DOMAIN drawn :
        LET d == drawn[k]
            q == Coords(ElemsAt(d.idx))
            invertedX == IF d.enc \in {"Corners", "Qwen1000"} THEN q[1] > q[3] ELSE q[3] < 0
            invertedY == IF d.enc \in {"Corners", "Qwen1000"} THEN q[2] > q[4] ELSE q[4] < 0
        IN  /\ (invertedX /\ d.px[1] # d.px[3]) => d.px[1] > d.px[3]
            /\ (invertedY /\ d.px[2] # d.px[4]) => d.px[2] > d.px[4]

\* the box [500,500,250,250] was drawn as Qwen1000 with x1 > x2 and y1 > y2
C12_Witness ==
    \E k \in DOMAIN drawn :
        /\ ElemsAt(drawn[k].idx) = <<500000, 500000, 250000, 250000>>
        /\ drawn[k].enc = "Qwen1000"
        /\ drawn[k].px[1] > drawn[k].px[3]
        /\ drawn[k].px[2] > drawn[k].px[4]

\* a box with a negative width and height was drawn from the absolute center
\* form with x1 > x2 and y1 > y2
C12_NegativeExtentDrawn ==
    \E k \in DOMAIN drawn :
        /\ ElemsAt(drawn[k].idx) = <<500000, 400000, -100000, -50000>>
        /\ drawn[k].enc = "YoloAbsolute"
        /\ drawn[k].px[1] > drawn[k].px[3]
        /\ drawn[k].px[2] > drawn[k].px[4]

\* C16: the loop takes the detections in input order and the number in a
\* label is the 1-based position of its detection in the input list, also
\* when earlier detections were passed over: labels are never renumbered, and
\* the class and the description in the label are those of that detection.
C16_LabelIsInputPosition ==
    /\ \A k \in DOMAIN drawn :
        LET d == drawn[k]
            it == items[d.idx]
        IN  /\ d.idx <= idx
            /\ d.label.idx = d.idx
            /\ d.label.desc = (IF it.description = "" THEN "bbox" ELSE it.description)
            /\ Len(d.label.cls) = (IF Len(ElemsAt(d.idx)) = 5 THEN 1 ELSE 0)
    /\ \A k, l \in DOMAIN drawn : k < l => drawn[k].idx < drawn[l].idx

\* the second detection of a list was drawn first, the first one having been
\* passed over, and its label says 2
C16_Witness ==
    /\ Len(drawn) = 1
    /\ idx = 2
    /\ drawn[1].idx = 2
    /\ drawn[1].label.idx = 2

\* C17: the top of the label background is max(0, y1 - labelHeight - 2) with
\* labelHeight = font.size + 6; it is never negative, whatever y1 is.
C17_LabelTopNeverNegative ==
    \A k \in DOMAIN drawn :
        LET d == drawn[k]
            above == d.px[2] - (font_size + 6) - 2
        IN  /\ d.ly >= 0
            /\ d.ly = (IF above > 0 THEN above ELSE 0)
            /\ d.lx = d.px[1]

\* a box with a negative y1 and a box with y1 = 0 were drawn in one call, both
\* with the label at the top row
C17_Witness ==
    /\ \E k \in DOMAIN drawn : drawn[k].px[2] < 0 /\ drawn[k].ly = 0
    /\ \E k \in DOMAIN drawn : drawn[k].px[2] = 0 /\ drawn[k].ly = 0

\* a label was drawn below the top row
C17_LabelBelowTop ==
    \E k \in DOMAIN drawn : drawn[k].ly > 0 /\ drawn[k].ly = drawn[k].px[2] - font_size - 8

\* C18: draw_bboxes never changes the list it was given: no step changes the
\* length or order of items, nor a box value, class or description in it,
\* with or without a rescale.
C18_ItemsNeverModified == [][items' = items]_vars

\* a list of two boxes was drawn to the end under the corners hint with a
\* rescale by a positive source size
C18_Witness ==
    /\ pc = "done"
    /\ bbox_format = "corners"
    /\ PositiveSource
    /\ Len(drawn) = 2

\* a box that is too short or holds an element that is no number
Malformed(b) == Len(b.elems) < 4 \/ ~b.numeric

\* the writer has a line for the j-th crack
LineFrom(j) == \E k \in DOMAIN lines : lines[k].from = j

\* C13: a detection whose box has fewer than 4 elements or an element that
\* is no number is passed over by draw_bboxes and by the label writers, and
\* the other detections of the list are processed as if it were not there:
\* it gets no rectangle and no line, it does not stop the writer, and every
\* 5-number box of the list has its line once the file is written.
C13_MalformedSkippedRestUnaffected ==
    /\ \A k \in DOMAIN drawn : ~Malformed(GetBBox(items[drawn[k].idx]))
    /\ \A k \in DOMAIN lines : ~Malformed(items[lines[k].from].bbox_2d)
    /\ epc # "raised"
    /\ epc = "written" =>
          \A j \in DOMAIN items :
              (items[j].bbox_2d.numeric /\ Len(items[j].bbox_2d.elems) = 5) => LineFrom(j)

\* the part of C13 about boxes that are too short, and about draw_bboxes
C13_ShortBoxesSkipped ==
    /\ \A k \in DOMAIN drawn : ~Malformed(GetBBox(items[drawn[k].idx]))
    /\ \A k \in DOMAIN lines : ~Malformed(items[lines[k].from].bbox_2d)
    /\ (\A j \in DOMAIN items : items[j].bbox_2d.numeric) =>
          /\ epc # "raised"
          /\ epc = "written" =>
                \A j \in DOMAIN items : Len(items[j].bbox_2d.elems) = 5 => LineFrom(j)

\* C14: no problem of a single detection raises an exception out of
\* draw_bboxes or out of a label writer.
C14_NoExceptionLeaves ==
    /\ pc # "raised"
    /\ epc # "raised"

\* a box that some conversion branch can draw: four or five numbers
ValidBox(b) == Truthy(b) /\ b.numeric /\ Len(b.elems) \in {4, 5}

\* the list holds no detection that can be drawn or exported
NoValidDetection ==
    \A j \in DOMAIN items : ~ValidBox(GetBBox(items[j])) /\ ~ValidBox(items[j].bbox_2d)

\* C15: zero valid detections are no error: draw_bboxes returns with nothing
\* drawn, the label writer writes an empty file, and the annotate program
\* does not end with an error status because there is nothing to draw.
C15_EmptySetIsNoError ==
    NoValidDetection =>
        /\ drawn = <<>>
        /\ pc # "raised"
        /\ exit_status \in {None, <<0>>}
        /\ epc # "raised"
        /\ epc = "written" => lines = <<>>

\* the positions of the cracks with a valid box, in input order
RECURSIVE ValidPositions(_)
ValidPositions(n) ==
    IF n = 0 THEN << >>
    ELSE IF ValidBox(items[n].bbox_2d) THEN Append(ValidPositions(n - 1), n)
    ELSE ValidPositions(n - 1)

\* a token printed as an integer, and one printed with a decimal point
IsIntToken(t) == Len(t.frac) = 0
IsFixedToken(t) == Len(t.frac) > 0

\* C19: once the file is written there is exactly one line per valid
\* detection, in input order; a line is an integer class_id and four numbers;
\* a valid 4-number box has a line with class_id 0, under every format_type
\* and in both writers.
C19_OneLinePerValidDetection ==
    /\ \A k \in DOMAIN lines :
        LET t == lines[k].toks
        IN  /\ Len(t) = 5
            /\ IsIntToken(t[1])
            /\ \A i \in 2..5 : IsFixedToken(t[i])
            /\ Len(items[lines[k].from].bbox_2d.elems) = 4 => t[1] = IntText(0)
    /\ epc = "written" =>
          [k \in DOMAIN lines |-> lines[k].from] = ValidPositions(Len(items))

\* the part of C19 that does not depend on 4-number boxes: every line has an
\* integer and four numbers, the lines are in input order, and every numeric
\* 5-number box has its line
C19_FiveNumberBoxesExported ==
    /\ \A k \in DOMAIN lines :
        LET t == lines[k].toks
        IN  Len(t) = 5 /\ IsIntToken(t[1]) /\ \A i \in 2..5 : IsFixedToken(t[i])
    /\ \A k, l \in DOMAIN lines : k < l => lines[k].from < lines[l].from
    /\ epc = "written" =>
          \A j \in DOMAIN items :
              (items[j].bbox_2d.numeric /\ Len(items[j].bbox_2d.elems) = 5) => LineFrom(j)

\* the four numbers a line was printed from: the converted box on the
\* Qwen-1000 branch, elements 2..5 of the list otherwise
ExportedForm(l) ==
    LET e == items[l.from].bbox_2d.elems
    IN  IF exporter = "save_yolo_labels_auto" /\ format_type = "Qwen-1000" /\ Len(e) = 4
        THEN "YoloNormalized"
        ELSE RangeRule(<< e[2], e[3], e[4], e[5] >>, "Corners")

\* C20: a line written in YoloNormalized form has exactly 6 decimal digits on
\* each of its four coordinates, and a line written in Corners or Qwen1000
\* form has exactly 2.
C20_PrecisionByTargetEncoding ==
    \A k \in DOMAIN lines :
        \A i \in 2..5 :
            Len(lines[k].toks[i].frac) =
                (IF ExportedForm(lines[k]) = "YoloNormalized" THEN 6 ELSE 2)

\* what the writers do instead: 6 decimal digits on every coordinate of every
\* line, and the two example boxes print as
\* "0 0.356000 0.568000 0.076000 0.026000" and
\* "0 0.360000 0.365000 0.080000 0.030000"
C20_AlwaysSixDecimals ==
    \A k \in DOMAIN lines :
        LET l == lines[k]
            e == items[l.from].bbox_2d.elems
        IN  /\ \A i \in 2..5 : Len(l.toks[i].frac) = 6
            /\ e = <<0, 356, 568, 76, 26>> =>
                  /\ l.toks[1] = [neg |-> FALSE, int |-> 0, frac |-> << >>]
                  /\ l.toks[2] = [neg |-> FALSE, int |-> 0, frac |-> <<3, 5, 6, 0, 0, 0>>]
                  /\ l.toks[5] = [neg |-> FALSE, int |-> 0, frac |-> <<0, 2, 6, 0, 0, 0>>]
            /\ (e = <<320000, 350000, 400000, 380000>>) =>
                  /\ l.toks[2] = [neg |-> FALSE, int |-> 0, frac |-> <<3, 6, 0, 0, 0, 0>>]
                  /\ l.toks[3] = [neg |-> FALSE, int |-> 0, frac |-> <<3, 6, 5, 0, 0, 0>>]
                  /\ l.toks[4] = [neg |-> FALSE, int |-> 0, frac |-> <<0, 8, 0, 0, 0, 0>>]
            /\ (e = <<520, 410, 80, 50>>) =>
                  l.toks[4] = [neg |-> TRUE, int |-> 0, frac |-> <<0, 0, 0, 4, 4, 0>>]
            /\ (e = <<1000, 320000, 350000, 400000, 380000>>) =>
                  l.toks[2] = [neg |-> FALSE, int |-> 320, frac |-> <<0, 0, 0, 0, 0, 0>>]
            /\ (e = <<2700, 500, 500, 200, 200>>) => l.toks[1] = IntText(2)

\* the number of "\n" in a text
RECURSIVE NewLines(_)
NewLines(text) ==
    IF Len(text) = 0 THEN 0
    ELSE (IF text[1].nl THEN 1 ELSE 0) + NewLines(Tail(text))

\* the text without its "\n": the lines it holds
RECURSIVE TextLines(_)
TextLines(text) ==
    IF Len(text) = 0 THEN << >>
    ELSE IF text[1].nl THEN TextLines(Tail(text))
    ELSE << text[1].toks >> \o TextLines(Tail(text))

\* C21: the text written to the label file is the lines joined by single
\* newlines, with a trailing newline exactly when there is a line: no lines
\* give the empty text, n >= 1 lines give a text with exactly n newlines that
\* ends in one, and no two newlines are adjacent.
C21_TrailingNewlineIffLines ==
    epc = "written" =>
        LET text == label_file[1]
            n == Len(lines)
        IN  /\ Len(label_file) = 1
            /\ n = 0 <=> text = << >>
            /\ NewLines(text) = n
            /\ n >= 1 => text[Len(text)].nl
            /\ Len(text) = 2 * n
            /\ \A i \in 1..n : ~text[2 * i - 1].nl /\ text[2 * i].nl
            /\ TextLines(text) = [i \in 1..n |-> lines[i].toks]

\* a file of two lines was written
C21_Witness ==
    /\ epc = "written"
    /\ Len(lines) = 2
    /\ Len(label_file[1]) = 4
    /\ label_file[1][4].nl

\* a file was written for a list that left no line: the text is empty
C21_EmptyFileWritten ==
    /\ epc = "written"
    /\ Len(items) > 0
    /\ lines = << >>
    /\ label_file = << << >> >>

\* a line that is not blank, not a comment, and has 5 numeric tokens
GoodLine(l) ==
    /\ Len(l.toks) > 0
    /\ ~(l.toks[1].hash)
    /\ Len(l.toks) = 5
    /\ \A i \in 1..5 : l.toks[i].num

\* the detections of the good lines among the first n, in file order
RECURSIVE DetectionsOfLines(_)
DetectionsOfLines(n) ==
    IF n = 0 THEN << >>
    ELSE IF GoodLine(label_lines[n])
         THEN Append(DetectionsOfLines(n - 1),
                     Detection(Box([i \in 1..5 |-> label_lines[n].toks[i].val]),
                               Absent, Absent, "label"))
         ELSE DetectionsOfLines(n - 1)

\* C22: reading a label file gives one detection per line that, once
\* trimmed, is not blank, does not start with '#' and has exactly 5 numeric
\* tokens, in file order, with the 5 numbers as its box; every other line
\* gives nothing and does not stop the reading of the lines after it.
C22_OneDetectionPerGoodLine ==
    /\ rpc # "raised"
    /\ rpc \in {"loop", "returned"} => items = DetectionsOfLines(ridx)
    /\ rpc = "returned" => ridx = Len(label_lines)

\* the same for files whose 5-token lines are all numeric
C22_NumericFilesRead ==
    (\A n \in DOMAIN label_lines :
        LET l == label_lines[n]
        IN  (Len(l.toks) = 5 /\ ~l.toks[1].hash) => \A i \in 1..5 : l.toks[i].num)
    => C22_OneDetectionPerGoodLine

\* a file whose second line is good was read to the end after a first line
\* that gives nothing
C22_LaterLineRead ==
    /\ rpc = "returned"
    /\ Len(label_lines) = 2
    /\ ~GoodLine(label_lines[1])
    /\ Len(items) = 1

\* every element of every list value of the mapping, in order
RECURSIVE AllElements(_)
AllElements(values) ==
    IF Len(values) = 0 THEN << >>
    ELSE (IF values[1].islist THEN values[1].els ELSE << >>) \o AllElements(Tail(values))

CarriesBox(el) ==
    el.isdict /\ (el.det.bbox_2d.present \/ el.det.bbox.present \/ el.det.yolo.present)

\* the first of bbox_2d, bbox, yolo that is a non-empty list; none: the empty list
FirstNonEmpty(d) ==
    IF d.bbox_2d.present /\ d.bbox_2d.elems # << >> THEN d.bbox_2d.elems
    ELSE IF d.bbox.present /\ d.bbox.elems # << >> THEN d.bbox.elems
    ELSE IF d.yolo.present /\ d.yolo.elems # << >> THEN d.yolo.elems
    ELSE << >>

\* C23: parse_items returns, in order, exactly the elements that are dicts
\* with at least one of the keys bbox_2d, bbox, yolo and that sit in a list
\* under a top-level key; other elements and values that are no list give
\* nothing; and the box a returned detection is drawn from is the first
\* non-empty one of bbox_2d, bbox, yolo.
C23_ParseItemsKeepsBoxCarriers ==
    /\ pc # "parse" =>
          LET kept == SelectSeq(AllElements(data), CarriesBox)
          IN  items = [i \in DOMAIN kept |-> kept[i].det]
    /\ \A k \in DOMAIN drawn :
          /\ drawn[k].box = FirstNonEmpty(items[drawn[k].idx])
          /\ drawn[k].box # << >>

\* a mapping with a value that is no list and a list holding an element that
\* is no dict, a dict without a box key and a dict with one was parsed, and
\* the one detection was drawn
C23_Witness ==
    /\ Len(data) = 2
    /\ ~data[1].islist
    /\ Len(data[2].els) = 3
    /\ Len(items) = 1
    /\ Len(drawn) = 1

\* a detection with an empty bbox_2d was drawn from its bbox
C23_SecondKeyUsed ==
    \E k \in DOMAIN drawn :
        /\ items[drawn[k].idx].bbox_2d.present
        /\ drawn[k].box = items[drawn[k].idx].bbox.elems

C24_ExactReturn ==
    cpc = "done" /\ cv_kind.chain = "roundtrip" /\ cv_out = cv_in

\* a Qwen-1000 box of four numbers within 0..1000 with x1 <= x2 and y1 <= y2
OrderedQwenBox(b) ==
    /\ Len(b) = 4
    /\ \A i \in 1..4 : Between(0, b[i], QwenRange)
    /\ b[1].n * b[3].d <= b[3].n * b[1].d
    /\ b[2].n * b[4].d <= b[4].n * b[2].d

\* C27: convert_qwen1000_to_yolo gives nothing for a list that has not four
\* numbers; for an ordered box within 0..1000 it gives [class_id,
\* (x1+x2)/2000, (y1+y2)/2000, (x2-x1)/1000, (y2-y1)/1000], and that result
\* read as normalized center form lands, on any canvas, within 1 pixel per
\* coordinate of the original box read as Qwen-1000.
C27_QwenToYoloAgreesInPixels ==
    cv_kind.chain = "qwen_to_yolo" =>
        /\ (cpc # "start" /\ Len(cv_in) # 4) => (cv_mid = None /\ cpc = "none")
        /\ (cpc # "start" /\ OrderedQwenBox(cv_in)) =>
              /\ cv_mid # None
              /\ cv_mid.class_id = cv_kind.class_id
              /\ cv_mid.box = << Frac(cv_in[1].n * cv_in[3].d + cv_in[3].n * cv_in[1].d,
                                       2000 * cv_in[1].d * cv_in[3].d),
                                  Frac(cv_in[2].n * cv_in[4].d + cv_in[4].n * cv_in[2].d,
                                       2000 * cv_in[2].d * cv_in[4].d),
                                  Frac(cv_in[3].n * cv_in[1].d - cv_in[1].n * cv_in[3].d,
                                       1000 * cv_in[1].d * cv_in[3].d),
                                  Frac(cv_in[4].n * cv_in[2].d - cv_in[2].n * cv_in[4].d,
                                       1000 * cv_in[2].d * cv_in[4].d) >>
        /\ (cpc = "done" /\ OrderedQwenBox(cv_in)) =>
              LET direct == _qwen1000_to_corners(cv_in[1], cv_in[2], cv_in[3], cv_in[4],
                                                 img_w, img_h)
              IN  \A i \in 1..4 : Abs(cv_out[i] - direct[i]) <= 1

\* an ordered box with a fractional coordinate went through the conversion to
\* pixels on the 1920x1080 canvas
C27_Witness ==
    /\ cpc = "done"
    /\ cv_kind.chain = "qwen_to_yolo"
    /\ cv_kind.class_id = 2
    /\ img_size = <<1920, 1080>>
    /\ cv_in = << Flt(333), Frac(501, 2), Flt(617), Flt(QwenRange) >>
    /\ cv_out = _qwen1000_to_corners(cv_in[1], cv_in[2], cv_in[3], cv_in[4], img_w, img_h)

\* a list of five numbers was given and nothing came back
C27_NoneReturned ==
    cpc = "none" /\ cv_kind.chain = "qwen_to_yolo" /\ Len(cv_in) = 5 /\ cv_mid = None

\* What the log of a batch run says
Finishing == { "return_true", "return_false", "raised" }
StepsAt(steps) == { k \in 1..Len(log) : log[k].step \in steps }
Interrupted == StepsAt({ "interrupted" }) # {}
Before(i, step, k) == \E j \in 1..(k - 1) : log[j].index = i /\ log[j].step = step

\* the lines of the file that are URLs, first to last
RECURSIVE UrlsInOrder(_)
UrlsInOrder(f) ==
    IF f = <<>> THEN <<>>
    ELSE (IF Head(f).hash \/ Head(f).body = "" THEN <<>> ELSE << Head(f).body >>)
         \o UrlsInOrder(Tail(f))

\* C25: the URLs are taken one at a time in the order of the file, each
\* finished before the next starts; a failed URL (analysis exit code, missing
\* JSON, an exception) does not stop the later ones; success_count +
\* failed_count is always the number of URLs finished, the number of URLs
\* after an uninterrupted run, and less than that after a keyboard interrupt,
\* which stops the loop with no later URL processed.
C25_BatchCountsFinishedUrls ==
    /\ bpc \notin { "start", "exit1" } => urls = UrlsInOrder(url_lines)
    /\ Len(log) > 0 => log[1] = [index |-> 1, step |-> "start"]
    /\ \A k \in 1..(Len(log) - 1) :
          IF log[k].step \in Finishing
          THEN log[k + 1] = [index |-> log[k].index + 1, step |-> "start"]
          ELSE log[k + 1].index = log[k].index /\ log[k + 1].step # "start"
    /\ \A k \in 1..Len(log) : log[k].index \in 1..Len(urls)
    /\ success_count + failed_count = Cardinality(StepsAt(Finishing))
    /\ (bpc = "summary" /\ ~Interrupted) =>
          /\ success_count + failed_count = Len(urls)
          /\ bidx = Len(urls)
    /\ Interrupted =>
          /\ StepsAt({ "interrupted" }) = { Len(log) }
          /\ bpc = "summary"
          /\ log[Len(log)].index = bidx
          /\ success_count + failed_count = bidx - 1
          /\ success_count + failed_count < Len(urls)

\* an uninterrupted run of three URLs ended with the first failed and the
\* last successful
C25_Witness ==
    /\ bpc = "summary"
    /\ ~Interrupted
    /\ Len(urls) = 3
    /\ [index |-> 1, step |-> "return_false"] \in { log[k] : k \in 1..Len(log) }
    /\ [index |-> 3, step |-> "return_true"] \in { log[k] : k \in 1..Len(log) }
    /\ success_count + failed_count = 3

\* the second of three URLs was interrupted after the first had raised
C25_InterruptedRun ==
    /\ bpc = "summary"
    /\ Interrupted
    /\ Len(urls) = 3
    /\ bidx = 2
    /\ [index |-> 1, step |-> "raised"] \in { log[k] : k \in 1..Len(log) }
    /\ failed_count = 1 /\ success_count = 0

C26_FailedWithoutJson ==
    /\ Len(log) >= 2
    /\ log[Len(log) - 1].step = "json_missing"
    /\ log[Len(log)].step = "return_false"
    /\ failed_count = 2

\* the pixel corners of the 4-number box q under the encoding enc a hint names
HintPixels(q, enc) ==
    LET n == [i \in 1..4 |-> Val(q[i])]
    IN  IF enc = "Qwen1000" THEN QwenPixels(n) ELSE YoloPixels(n, enc = "YoloNormalized")

\* C28: under yolo_norm/yolo_norm5, yolo_abs/yolo_abs5 and qwen1000/qwen1000_5
\* the pixel corners depend on the hint only through the encoding it names:
\* a 5-number box is drawn as its last four numbers are as a 4-number box, a
\* 4-number box is used whole, and a box of another length is passed over.
C28_PrefixedHintsInterchangeable ==
    bbox_format \in YoloFormats \cup QwenFormats =>
        /\ \A k \in DOMAIN drawn :
              LET d == drawn[k]
                  e == ElemsAt(d.idx)
              IN  /\ Len(e) \in {4, 5}
                  /\ d.enc = HintEncoding(bbox_format)
                  /\ d.px = HintPixels(Coords(e), HintEncoding(bbox_format))
        /\ pc = "done" =>
              \A j \in DOMAIN items :
                  LET b == GetBBox(items[j])
                  IN  (Truthy(b) /\ b.numeric) =>
                        ((\E k \in DOMAIN drawn : drawn[k].idx = j) <=> Len(b.elems) \in {4, 5})

\* a 5-number box was drawn under the unprefixed hint yolo_abs with a source
\* size, its first number dropped
C28_Witness ==
    /\ bbox_format = "yolo_abs"
    /\ PositiveSource
    /\ \E k \in DOMAIN drawn :
          /\ Len(ElemsAt(drawn[k].idx)) = 5
          /\ drawn[k].enc = "YoloAbsolute"
          /\ drawn[k].px = HintPixels(SubSeq(ElemsAt(drawn[k].idx), 2, 5), "YoloAbsolute")
          /\ drawn[k].px[1] < drawn[k].px[3]

\* a 4-number box was drawn under the prefixed hint qwen1000_5, used whole
C28_FourUnderPrefixedHint ==
    /\ bbox_format = "qwen1000_5"
    /\ \E k \in DOMAIN drawn :
          /\ Len(ElemsAt(drawn[k].idx)) = 4
          /\ drawn[k].enc = "Qwen1000"
          /\ drawn[k].px[1] < drawn[k].px[3]

\* a 6-number box was passed over under a prefixed hint
C28_OtherLengthSkipped ==
    /\ bbox_format = "yolo_norm5"
    /\ pc = "done"
    /\ drawn = <<>>
    /\ \E j \in DOMAIN items : Len(GetBBox(items[j]).elems) = 6 /\ GetBBox(items[j]).numeric

\* C29: a box drawn from center form (YoloNormalized or YoloAbsolute) with
\* w >= 0 and h >= 0, or from Qwen1000 with x1 <= x2 and y1 <= y2, has pixel
\* corners with x1 <= x2 and y1 <= y2 after rounding and clamping.
C29_CornerOrderPreserved ==
    \A k \in DOMAIN drawn :
        LET d == drawn[k]
            q == Coords(ElemsAt(d.idx))
            wellFormed ==
                \/ d.enc \in {"YoloNormalized", "YoloAbsolute"} /\ q[3] >= 0 /\ q[4] >= 0
                \/ d.enc = "Qwen1000" /\ q[1] <= q[3] /\ q[2] <= q[4]
        IN  wellFormed => (d.px[1] <= d.px[3] /\ d.px[2] <= d.px[4])

\* a center-form box hanging over the left and top edge of the canvas was
\* drawn with its corners in order
C29_Witness ==
    \E k \in DOMAIN drawn :
        LET d == drawn[k]
            q == Coords(ElemsAt(d.idx))
        IN  /\ d.enc \in {"YoloNormalized", "YoloAbsolute"}
            /\ q[3] > 0 /\ q[4] > 0
            /\ 2 * q[1] < q[3]
            /\ d.px[1] = 0
            /\ d.px[1] < d.px[3] /\ d.px[2] <= d.px[4]

\* an ordered Qwen1000 box was drawn with its corners in order
C29_QwenInOrder ==
    \E k \in DOMAIN drawn :
        LET d == drawn[k]
            q == Coords(ElemsAt(d.idx))
        IN  /\ d.enc = "Qwen1000"
            /\ q[1] < q[3] /\ q[2] < q[4]
            /\ d.px[1] < d.px[3] /\ d.px[2] < d.px[4]

====
